---- MODULE Spec2Model ----
(***************************************************************************)
(* A model of the ataraxis-transport-layer-mc library: the COBSProcessor   *)
(* codec, the CRCProcessor codec and the TransportLayer class that         *)
(* composes them over a Stream.  Buffers are functions from 0-based        *)
(* indices to bytes, as in the C++ source.                                 *)
(***************************************************************************)
EXTENDS Integers, Naturals, Sequences, FiniteSets, TLC

(***************************************************************************)
(* Bounds of the model                                                     *)
(***************************************************************************)
\* largest payload size the codec-level specification SpecCOBS draws
MaxCobsPayload == 3
\* number of codec calls SpecCOBS applies to one buffer
MaxCobsCalls == 3
\* number of data bytes of the buffers the CRC-level specification SpecCRC draws
MaxCrcData == 2
\* number of CRCProcessor calls SpecCRC applies to one buffer
MaxCrcCalls == 3
\* TransportLayer template arguments of the modelled instantiation
kMaximumTransmittedPayloadSize == 2
kMaximumReceivedPayloadSize == 2
\* number of TransportLayer calls in one behaviour of Spec
MaxCalls == 4
\* number of bytes the environment corrupts in one behaviour of Spec
MaxCorruptions == 1

(***************************************************************************)
(* Program constants                                                       *)
(***************************************************************************)
kMinimumPayloadSize == 1
kStartByte == 129
kPayloadSizeIndex == 1
kOverheadByteIndex == 2
kPayloadStartIndex == kOverheadByteIndex + 1
kMinPayloadSize == 1
kMaxPayloadSize == 254
kMinPacketSize == 3
kMaxPacketSize == 256

\* kCOBSProcessorCodes
kCOBSStandby == 11
kEncoderTooSmallPayloadSize == 12
kEncoderTooLargePayloadSize == 13
kEncoderPacketLargerThanBuffer == 14
kPayloadAlreadyEncoded == 15
kPayloadEncoded == 16
kDecoderTooSmallPacketSize == 17
kDecoderTooLargePacketSize == 18
kDecoderPacketLargerThanBuffer == 19
kDecoderUnableToFindDelimiter == 20
kDecoderDelimiterFoundTooEarly == 21
kPacketAlreadyDecoded == 22
kPayloadDecoded == 23

\* axtlmc_shared_assets::kTransportLayerCodes
kStandby == 101
kPacketConstructed == 102
kPacketSent == 103
kPacketStartByteFound == 104
kPacketStartByteNotFound == 105
kPayloadSizeByteFound == 106
kPayloadSizeByteNotFound == 107
kInvalidPayloadSize == 108
kPacketTimeoutError == 109
kNoBytesToParseFromBuffer == 110
kPacketParsed == 111
kCRCCheckFailed == 112
kPacketValidated == 113
kPacketReceived == 114
kWriteObjectBufferError == 115
kObjectWrittenToBuffer == 116
kReadObjectBufferError == 117
kObjectReadFromBuffer == 118
kDelimiterNotFoundError == 119
kDelimiterFoundTooEarlyError == 120
kPostambleTimeoutError == 121

(***************************************************************************)
(* Fixed-width integer helpers                                             *)
(***************************************************************************)
Byte == 0..255
U8(x) == x % 256
U16(x) == x % 65536

\* number of elements of a 0-based buffer (the C++ buffer_size template argument)
BufLen(buf) == Cardinality(DOMAIN buf)

\* the bytes buf[from .. from+n-1] as a sequence
Slice(buf, from, n) == [k \in 1..n |-> buf[from + k - 1]]

\* the element of a one-element set.  Only({e : v \in {x}}) is LET v == x IN e with x
\* evaluated exactly once, whatever the number of times e uses v.
Only(S) == CHOOSE v \in S : TRUE

(***************************************************************************)
(* COBSProcessor                                                           *)
(***************************************************************************)
\* the reverse loop of EncodePayload: for (i = payload_end_index; i >= kPayloadStartIndex; --i)
RECURSIVE EncodeLoop(_, _, _, _, _)
EncodeLoop(buf, i, last_delimiter_index, delimiter_byte_value, kDelimiterIndex) ==
  IF i < kPayloadStartIndex
  THEN [buf |-> buf, last |-> last_delimiter_index]
  ELSE IF buf[i] = delimiter_byte_value
       THEN Only({EncodeLoop(encoded, i - 1, i, delimiter_byte_value, kDelimiterIndex) :
                    encoded \in {[buf EXCEPT ![i] = IF last_delimiter_index = 0
                                                    THEN U8(kDelimiterIndex - i)
                                                    ELSE U8(last_delimiter_index - i)]}})
       ELSE EncodeLoop(buf, i - 1, last_delimiter_index, delimiter_byte_value, kDelimiterIndex)

\* a variant of EncodePayload that tests the overhead byte before the payload size
EncodePayloadCheckingOverheadFirst(payload_buffer, delimiter_byte_value) ==
  LET payload_size == payload_buffer[kPayloadSizeIndex]
      minimum_required_buffer_size == U16(payload_size + kOverheadByteIndex + 2)
      payload_end_index == payload_size + kOverheadByteIndex
      kDelimiterIndex == payload_end_index + 1
      Fail(code) == [buf |-> payload_buffer, ret |-> 0, status |-> code]
  IN  IF payload_buffer[kOverheadByteIndex] # 0 THEN Fail(kPayloadAlreadyEncoded)
      ELSE IF payload_size < kMinPayloadSize THEN Fail(kEncoderTooSmallPayloadSize)
      ELSE IF payload_size > kMaxPayloadSize THEN Fail(kEncoderTooLargePayloadSize)
      ELSE IF BufLen(payload_buffer) < minimum_required_buffer_size
           THEN Fail(kEncoderPacketLargerThanBuffer)
      ELSE Only({[buf |-> [looped.buf EXCEPT ![kOverheadByteIndex] =
                             IF looped.last # 0
                             THEN U8(looped.last - kOverheadByteIndex)
                             ELSE U8(kDelimiterIndex - kOverheadByteIndex)],
                  ret |-> minimum_required_buffer_size - kOverheadByteIndex,
                  status |-> kPayloadEncoded] :
                   looped \in {EncodeLoop(
                                 [payload_buffer EXCEPT ![kDelimiterIndex] = delimiter_byte_value],
                                 payload_end_index, 0, delimiter_byte_value, kDelimiterIndex)}})

\* a variant of EncodePayload that does not append the delimiter
EncodePayloadWithoutDelimiter(payload_buffer, delimiter_byte_value) ==
  LET payload_size == payload_buffer[kPayloadSizeIndex]
      minimum_required_buffer_size == U16(payload_size + kOverheadByteIndex + 2)
      payload_end_index == payload_size + kOverheadByteIndex
      kDelimiterIndex == payload_end_index + 1
      Fail(code) == [buf |-> payload_buffer, ret |-> 0, status |-> code]
  IN  IF payload_size < kMinPayloadSize THEN Fail(kEncoderTooSmallPayloadSize)
      ELSE IF payload_size > kMaxPayloadSize THEN Fail(kEncoderTooLargePayloadSize)
      ELSE IF BufLen(payload_buffer) < minimum_required_buffer_size
           THEN Fail(kEncoderPacketLargerThanBuffer)
      ELSE IF payload_buffer[kOverheadByteIndex] # 0 THEN Fail(kPayloadAlreadyEncoded)
      ELSE Only({[buf |-> [looped.buf EXCEPT ![kOverheadByteIndex] =
                             IF looped.last # 0
                             THEN U8(looped.last - kOverheadByteIndex)
                             ELSE U8(kDelimiterIndex - kOverheadByteIndex)],
                  ret |-> minimum_required_buffer_size - kOverheadByteIndex,
                  status |-> kPayloadEncoded] :
                   looped \in {EncodeLoop(
                                 payload_buffer,
                                 payload_end_index, 0, delimiter_byte_value, kDelimiterIndex)}})

\* COBSProcessor::EncodePayload: the buffer after the call, the returned size and cobs_status
EncodePayload(payload_buffer, delimiter_byte_value) ==
  LET payload_size == payload_buffer[kPayloadSizeIndex]
      minimum_required_buffer_size == U16(payload_size + kOverheadByteIndex + 2)
      payload_end_index == payload_size + kOverheadByteIndex
      kDelimiterIndex == payload_end_index + 1
      Fail(code) == [buf |-> payload_buffer, ret |-> 0, status |-> code]
  IN  IF payload_size < kMinPayloadSize THEN Fail(kEncoderTooSmallPayloadSize)
      ELSE IF payload_size > kMaxPayloadSize THEN Fail(kEncoderTooLargePayloadSize)
      ELSE IF BufLen(payload_buffer) < minimum_required_buffer_size
           THEN Fail(kEncoderPacketLargerThanBuffer)
      ELSE IF payload_buffer[kOverheadByteIndex] # 0 THEN Fail(kPayloadAlreadyEncoded)
      ELSE Only({[buf |-> [looped.buf EXCEPT ![kOverheadByteIndex] =
                             IF looped.last # 0
                             THEN U8(looped.last - kOverheadByteIndex)
                             ELSE U8(kDelimiterIndex - kOverheadByteIndex)],
                  ret |-> minimum_required_buffer_size - kOverheadByteIndex,
                  status |-> kPayloadEncoded] :
                   looped \in {EncodeLoop(
                                 [payload_buffer EXCEPT ![kDelimiterIndex] = delimiter_byte_value],
                                 payload_end_index, 0, delimiter_byte_value, kDelimiterIndex)}})

\* a variant of the loop of DecodePayload that takes a delimiter at any index as the end
RECURSIVE DecodeLoopAcceptingEarlyDelimiter(_, _, _, _, _, _)
DecodeLoopAcceptingEarlyDelimiter(buf, read_index, delimiter_byte_value, kMinimumRequiredBufferSize, kDelimiterIndex, kPayloadSize) ==
  IF ~(read_index < kMinimumRequiredBufferSize)
  THEN [buf |-> buf, ret |-> 0, status |-> kDecoderUnableToFindDelimiter]
  ELSE IF buf[read_index] = delimiter_byte_value
       THEN [buf |-> buf, ret |-> kPayloadSize, status |-> kPayloadDecoded]
       ELSE Only({DecodeLoopAcceptingEarlyDelimiter(decoded, next_read_index, delimiter_byte_value,
                             kMinimumRequiredBufferSize, kDelimiterIndex, kPayloadSize) :
                    decoded \in {[buf EXCEPT ![read_index] = delimiter_byte_value]},
                    next_read_index \in {U16(read_index + buf[read_index])}})

\* a variant of the loop of DecodePayload that follows the jump chain to the end of the buffer
RECURSIVE DecodeLoopToBufferEnd(_, _, _, _, _, _)
DecodeLoopToBufferEnd(buf, read_index, delimiter_byte_value, kMinimumRequiredBufferSize, kDelimiterIndex, kPayloadSize) ==
  IF ~(read_index < BufLen(buf))
  THEN [buf |-> buf, ret |-> 0, status |-> kDecoderUnableToFindDelimiter]
  ELSE IF buf[read_index] = delimiter_byte_value
       THEN IF read_index = kDelimiterIndex
            THEN [buf |-> buf, ret |-> kPayloadSize, status |-> kPayloadDecoded]
            ELSE [buf |-> buf, ret |-> 0, status |-> kDecoderDelimiterFoundTooEarly]
       ELSE Only({DecodeLoopToBufferEnd(decoded, next_read_index, delimiter_byte_value,
                             kMinimumRequiredBufferSize, kDelimiterIndex, kPayloadSize) :
                    decoded \in {[buf EXCEPT ![read_index] = delimiter_byte_value]},
                    next_read_index \in {U16(read_index + buf[read_index])}})

\* a variant of the loop body of DecodePayload that jumps without restoring the
\* delimiter value at read_index
DecodeIterationKeepingByte(buf, read_index, delimiter_byte_value, kDelimiterIndex, kPayloadSize) ==
  IF buf[read_index] = delimiter_byte_value
  THEN IF read_index = kDelimiterIndex
       THEN [returned |-> TRUE, buf |-> buf, read_index |-> read_index, next_index |-> 0,
             ret |-> kPayloadSize, status |-> kPayloadDecoded]
       ELSE [returned |-> TRUE, buf |-> buf, read_index |-> read_index, next_index |-> 0,
             ret |-> 0, status |-> kDecoderDelimiterFoundTooEarly]
  ELSE [returned |-> FALSE, buf |-> buf,
        read_index |-> U16(read_index + buf[read_index]), next_index |-> buf[read_index],
        ret |-> 0, status |-> kCOBSStandby]

\* one pass through the body of the loop of DecodePayload: whether it returned, and
\* either the value returned and cobs_status, or the buffer, read_index and next_index
\* behind the jump
DecodeIteration(buf, read_index, delimiter_byte_value, kDelimiterIndex, kPayloadSize) ==
  IF buf[read_index] = delimiter_byte_value
  THEN IF read_index = kDelimiterIndex
       THEN [returned |-> TRUE, buf |-> buf, read_index |-> read_index, next_index |-> 0,
             ret |-> kPayloadSize, status |-> kPayloadDecoded]
       ELSE [returned |-> TRUE, buf |-> buf, read_index |-> read_index, next_index |-> 0,
             ret |-> 0, status |-> kDecoderDelimiterFoundTooEarly]
  ELSE [returned |-> FALSE, buf |-> [buf EXCEPT ![read_index] = delimiter_byte_value],
        read_index |-> U16(read_index + buf[read_index]), next_index |-> buf[read_index],
        ret |-> 0, status |-> kCOBSStandby]

\* the forward loop of DecodePayload: while (read_index < kMinimumRequiredBufferSize)
RECURSIVE DecodeLoop(_, _, _, _, _, _)
DecodeLoop(buf, read_index, delimiter_byte_value, kMinimumRequiredBufferSize, kDelimiterIndex, kPayloadSize) ==
  IF ~(read_index < kMinimumRequiredBufferSize)
  THEN [buf |-> buf, ret |-> 0, status |-> kDecoderUnableToFindDelimiter]
  ELSE IF buf[read_index] = delimiter_byte_value
       THEN IF read_index = kDelimiterIndex
            THEN [buf |-> buf, ret |-> kPayloadSize, status |-> kPayloadDecoded]
            ELSE [buf |-> buf, ret |-> 0, status |-> kDecoderDelimiterFoundTooEarly]
       ELSE Only({DecodeLoop(decoded, next_read_index, delimiter_byte_value,
                             kMinimumRequiredBufferSize, kDelimiterIndex, kPayloadSize) :
                    decoded \in {[buf EXCEPT ![read_index] = delimiter_byte_value]},
                    next_read_index \in {U16(read_index + buf[read_index])}})

\* a variant of DecodePayload that tests the overhead byte before the packet size
DecodePayloadCheckingOverheadFirst(packet_buffer, delimiter_byte_value) ==
  LET kPayloadSize == packet_buffer[kPayloadSizeIndex]
      kPacketSize == kPayloadSize + 2
      kMinimumRequiredBufferSize == kPayloadSize + kOverheadByteIndex + 2
      kDelimiterIndex == kPacketSize + 1
      Fail(code) == [buf |-> packet_buffer, ret |-> 0, status |-> code]
  IN  IF packet_buffer[kOverheadByteIndex] = 0 THEN Fail(kPacketAlreadyDecoded)
      ELSE IF kPacketSize < kMinPacketSize THEN Fail(kDecoderTooSmallPacketSize)
      ELSE IF kPacketSize > kMaxPacketSize THEN Fail(kDecoderTooLargePacketSize)
      ELSE IF BufLen(packet_buffer) < kMinimumRequiredBufferSize
           THEN Fail(kDecoderPacketLargerThanBuffer)
      ELSE LET next_index == packet_buffer[kOverheadByteIndex]
               cleared == [packet_buffer EXCEPT ![kOverheadByteIndex] = 0]
           IN  DecodeLoop(cleared, U16(kOverheadByteIndex + next_index), delimiter_byte_value,
                          kMinimumRequiredBufferSize, kDelimiterIndex, kPayloadSize)

\* a variant of DecodePayload that leaves the overhead byte as it found it
DecodePayloadKeepingOverhead(packet_buffer, delimiter_byte_value) ==
  LET kPayloadSize == packet_buffer[kPayloadSizeIndex]
      kPacketSize == kPayloadSize + 2
      kMinimumRequiredBufferSize == kPayloadSize + kOverheadByteIndex + 2
      kDelimiterIndex == kPacketSize + 1
      Fail(code) == [buf |-> packet_buffer, ret |-> 0, status |-> code]
  IN  IF kPacketSize < kMinPacketSize THEN Fail(kDecoderTooSmallPacketSize)
      ELSE IF kPacketSize > kMaxPacketSize THEN Fail(kDecoderTooLargePacketSize)
      ELSE IF BufLen(packet_buffer) < kMinimumRequiredBufferSize
           THEN Fail(kDecoderPacketLargerThanBuffer)
      ELSE IF packet_buffer[kOverheadByteIndex] = 0 THEN Fail(kPacketAlreadyDecoded)
      ELSE LET next_index == packet_buffer[kOverheadByteIndex]
               cleared == packet_buffer
           IN  DecodeLoop(cleared, U16(kOverheadByteIndex + next_index), delimiter_byte_value,
                          kMinimumRequiredBufferSize, kDelimiterIndex, kPayloadSize)

\* COBSProcessor::DecodePayload: the buffer after the call, the returned size and cobs_status
DecodePayload(packet_buffer, delimiter_byte_value) ==
  LET kPayloadSize == packet_buffer[kPayloadSizeIndex]
      kPacketSize == kPayloadSize + 2
      kMinimumRequiredBufferSize == kPayloadSize + kOverheadByteIndex + 2
      kDelimiterIndex == kPacketSize + 1
      Fail(code) == [buf |-> packet_buffer, ret |-> 0, status |-> code]
  IN  IF kPacketSize < kMinPacketSize THEN Fail(kDecoderTooSmallPacketSize)
      ELSE IF kPacketSize > kMaxPacketSize THEN Fail(kDecoderTooLargePacketSize)
      ELSE IF BufLen(packet_buffer) < kMinimumRequiredBufferSize
           THEN Fail(kDecoderPacketLargerThanBuffer)
      ELSE IF packet_buffer[kOverheadByteIndex] = 0 THEN Fail(kPacketAlreadyDecoded)
      ELSE LET next_index == packet_buffer[kOverheadByteIndex]
               cleared == [packet_buffer EXCEPT ![kOverheadByteIndex] = 0]
           IN  DecodeLoop(cleared, U16(kOverheadByteIndex + next_index), delimiter_byte_value,
                          kMinimumRequiredBufferSize, kDelimiterIndex, kPayloadSize)

(***************************************************************************)
(* CRCProcessor<PolynomialType>.  Checksums are 8*width bits wide; the     *)
(* model covers PolynomialType = uint8_t (width 1) and uint16_t (width 2). *)
(***************************************************************************)
\* kCRCProcessorCodes
kCRCStandby == 51
kCalculateCRCChecksumBufferTooSmall == 52
kCRCChecksumCalculated == 53
kAddCRCChecksumBufferTooSmall == 54
kCRCChecksumAddedToBuffer == 55
kReadCRCChecksumBufferTooSmall == 56
kCRCChecksumReadFromBuffer == 57

\* bitwise exclusive or of two naturals
RECURSIVE Xor(_, _)
Xor(a, b) ==
  Only({IF x = 0 THEN y
        ELSE IF y = 0 THEN x
        ELSE (((x % 2) + (y % 2)) % 2) + 2 * Xor(x \div 2, y \div 2) :
          x \in {a}, y \in {b}})

\* 2^(8*width): the modulus of a width-byte unsigned integer
Pow256(width) == IF width = 1 THEN 256 ELSE 65536

\* one shift-XOR round of the table generator: the top bit decides
TableRound(crc, polynomial, width) ==
  IF crc >= Pow256(width) \div 2
  THEN Xor((crc * 2) % Pow256(width), polynomial)
  ELSE (crc * 2) % Pow256(width)

RECURSIVE TableRounds(_, _, _, _)
TableRounds(crc, polynomial, width, rounds) ==
  IF rounds = 0 THEN crc
  ELSE Only({TableRounds(shifted, polynomial, width, rounds - 1) :
               shifted \in {TableRound(crc, polynomial, width)}})

\* CRCProcessor::GenerateCRCTable: the 256-entry lookup table of a polynomial
GenerateCRCTable(polynomial, width) ==
  [b \in Byte |-> TableRounds(b * (Pow256(width) \div 256), polynomial, width, 8)]

\* the CRC parameter sets the model instantiates CRCProcessor with
CRC8 == [polynomial |-> 7, initial_value |-> 0, final_xor_value |-> 0, width |-> 1]
CRC8Xor == [polynomial |-> 7, initial_value |-> 0, final_xor_value |-> 85, width |-> 1]
CRC16 == [polynomial |-> 4129, initial_value |-> 65535, final_xor_value |-> 0, width |-> 2]
CRC16Xor == [polynomial |-> 4129, initial_value |-> 65535, final_xor_value |-> 65535, width |-> 2]
CRCParameters == {CRC8, CRC8Xor, CRC16, CRC16Xor}

\* the crc_table member of each instantiated processor, built once at construction
crc_tables ==
  [pw \in {<<c.polynomial, c.width>> : c \in CRCParameters} |-> GenerateCRCTable(pw[1], pw[2])]

crc_table(crc) == crc_tables[<<crc.polynomial, crc.width>>]

\* the byte loop of CalculatePacketCRCChecksum over buffer[index .. last]
RECURSIVE CalculateLoop(_, _, _, _, _)
CalculateLoop(crc, buffer, index, last, checksum) ==
  IF index > last THEN checksum
  ELSE Only({CalculateLoop(crc, buffer, index + 1, last, next_checksum) :
               next_checksum \in
                 {Xor((checksum * 256) % Pow256(crc.width),
                      crc_table(crc)[Xor(checksum \div (Pow256(crc.width) \div 256),
                                         buffer[index])])}})

\* CRCProcessor::CalculatePacketCRCChecksum: the returned checksum and crc_status
CalculatePacketCRCChecksum(crc, buffer, start_index, packet_size) ==
  IF BufLen(buffer) < start_index + packet_size
  THEN [ret |-> 0, status |-> kCalculateCRCChecksumBufferTooSmall]
  ELSE [ret |-> Xor(CalculateLoop(crc, buffer, start_index, start_index + packet_size - 1,
                                  crc.initial_value),
                    crc.final_xor_value),
        status |-> kCRCChecksumCalculated]

\* byte k (0 = most significant) of a width-byte checksum
ChecksumByte(checksum, width, k) ==
  IF width = 1 THEN checksum % 256
  ELSE IF k = 0 THEN (checksum \div 256) % 256 ELSE checksum % 256

\* a variant of AddCRCChecksumToBuffer that stores the least significant byte first
AddCRCChecksumLeastSignificantFirst(crc, buffer, start_index, checksum) ==
  IF BufLen(buffer) < start_index + crc.width
  THEN [buf |-> buffer, ret |-> 0, status |-> kAddCRCChecksumBufferTooSmall]
  ELSE [buf |-> [i \in DOMAIN buffer |->
                   IF i >= start_index /\ i < start_index + crc.width
                   THEN ChecksumByte(checksum, crc.width, crc.width - 1 - (i - start_index))
                   ELSE buffer[i]],
        ret |-> start_index + crc.width,
        status |-> kCRCChecksumAddedToBuffer]

\* CRCProcessor::AddCRCChecksumToBuffer: the buffer after the call, the index after the
\* checksum and crc_status
AddCRCChecksumToBuffer(crc, buffer, start_index, checksum) ==
  IF BufLen(buffer) < start_index + crc.width
  THEN [buf |-> buffer, ret |-> 0, status |-> kAddCRCChecksumBufferTooSmall]
  ELSE [buf |-> [i \in DOMAIN buffer |->
                   IF i >= start_index /\ i < start_index + crc.width
                   THEN ChecksumByte(checksum, crc.width, i - start_index)
                   ELSE buffer[i]],
        ret |-> start_index + crc.width,
        status |-> kCRCChecksumAddedToBuffer]

(***************************************************************************)
(* State                                                                   *)
(***************************************************************************)
VARIABLES
  \* a stand-alone COBSProcessor and the buffer handed to it (SpecCOBS)
  payload_buffer,        \* the caller's buffer, indices 0..buffer_size-1
  delimiter_byte_value,  \* the delimiter passed to every call
  cobs_status,           \* COBSProcessor::cobs_status
  cobs_calls,            \* history: the calls made so far, oldest first
  \* a stand-alone CRCProcessor and the buffer handed to it (SpecCRC)
  crc_processor,         \* its constructor arguments and checksum width
  crc_buffer,            \* the caller's buffer, indices 0..buffer_size-1
  crc_status,            \* CRCProcessor::crc_status
  crc_calls,             \* history: the calls made so far, oldest first
  \* a TransportLayer and the Stream it is bound to (Spec); its _cobs_processor and
  \* _crc_processor are cobs_status, crc_processor and crc_status above
  kDelimiterByte,          \* constructor argument delimiter_byte
  allow_start_byte_errors, \* TransportLayer::allow_start_byte_errors
  transmission_buffer,     \* _transmission_buffer, indices 0..kTransmissionBufferSize-1
  reception_buffer,        \* _reception_buffer, indices 0..kReceptionBufferSize-1
  transfer_status,         \* TransportLayer::transfer_status
  port_rx,                 \* bytes the Stream holds for read(), oldest first
  port_tx,                 \* bytes written to the Stream and not yet delivered
  calls,                   \* number of TransportLayer calls made so far
  last,                    \* the last TransportLayer call: its arguments and what it returned
  sent_packet,             \* history: the bytes the last successful SendData wrote
  sent_payload,            \* history: the payload staged when that SendData was called
  corruptions,             \* number of bytes the environment has corrupted so far
  \* the Stream over time and a ReceiveData call in progress (SpecTimed)
  in_flight,               \* bytes on their way to the Stream's read side, oldest first
  timing,                  \* history: how the bytes arrived while ReceiveData was running
  parser,                  \* the position and the local variables of ParsePacket
  \* a DecodePayload call in progress on payload_buffer (SpecDecode)
  decoder                  \* the position and the local variables of DecodePayload

cobsVars == <<payload_buffer, delimiter_byte_value, cobs_status, cobs_calls, decoder>>
crcVars == <<crc_processor, crc_buffer, crc_status, crc_calls>>
tlVars == <<kDelimiterByte, allow_start_byte_errors, transmission_buffer, reception_buffer,
            transfer_status, port_rx, port_tx, calls, last, sent_packet, sent_payload,
            corruptions, in_flight, timing, parser>>
vars == <<cobsVars, crcVars, tlVars>>

\* no ReceiveData call is in progress
IdleParser ==
  [pc |-> "idle", timeout_timer |-> 0, bytes_read |-> 0, remaining_size |-> 0,
   delimiter_found |-> FALSE]
IdleTiming == [gap |-> 0, stalled |-> FALSE, elapsed |-> 0, intact |-> FALSE]

\* no DecodePayload call is in progress
IdleDecoder == [pc |-> "idle", read_index |-> 0, next_index |-> 0, ret |-> 0, before |-> <<>>]

NoCall == [op |-> "none", start_index |-> 0, bytes |-> 0, object |-> <<>>, ret |-> 0, ok |-> FALSE]

\* the variables of a stand-alone codec that a specification does not use
IdleCOBS ==
  /\ payload_buffer = <<>>
  /\ delimiter_byte_value = 0
  /\ cobs_status = kCOBSStandby
  /\ cobs_calls = <<>>
  /\ decoder = IdleDecoder

IdleCRC ==
  /\ crc_processor = CRC8
  /\ crc_buffer = <<>>
  /\ crc_status = kCRCStandby
  /\ crc_calls = <<>>

IdleTransportLayer ==
  /\ kDelimiterByte = 0
  /\ allow_start_byte_errors = FALSE
  /\ transmission_buffer = <<>>
  /\ reception_buffer = <<>>
  /\ transfer_status = kStandby
  /\ port_rx = <<>>
  /\ port_tx = <<>>
  /\ calls = 0
  /\ last = NoCall
  /\ sent_packet = <<>>
  /\ sent_payload = <<>>
  /\ corruptions = 0
  /\ in_flight = <<>>
  /\ timing = IdleTiming
  /\ parser = IdleParser

(***************************************************************************)
(* SpecCOBS: the codec applied to buffers drawn from a bounded set         *)
(***************************************************************************)
\* byte values the payload, delimiter slot and tail are drawn from
CobsBytes == {0, 1, 2}
\* delimiter values
CobsDelimiters == {0, 1, 2}
\* the buffer holds MaxCobsPayload payload bytes, the 4 framing bytes and one tail byte
CobsBufferSize == MaxCobsPayload + kOverheadByteIndex + 2 + 1
\* payload_size values: legal ones, 0, one too large for the buffer, and 255
CobsSizes == (0..(MaxCobsPayload + 2)) \cup {255}

InitCOBS ==
  /\ delimiter_byte_value \in CobsDelimiters
  /\ \E size \in CobsSizes, overhead \in {0, 1},
        body \in [kPayloadStartIndex..(CobsBufferSize - 1) -> CobsBytes] :
       payload_buffer = [i \in 0..(CobsBufferSize - 1) |->
                           IF i = 0 THEN 129
                           ELSE IF i = kPayloadSizeIndex THEN size
                           ELSE IF i = kOverheadByteIndex THEN overhead
                           ELSE body[i]]
  /\ cobs_status = kCOBSStandby
  /\ cobs_calls = <<>>
  /\ decoder = IdleDecoder
  /\ IdleCRC
  /\ IdleTransportLayer

\* a call of cobs_processor.EncodePayload(payload_buffer, delimiter_byte_value)
CobsEncode ==
  /\ Len(cobs_calls) < MaxCobsCalls
  /\ LET r == EncodePayload(payload_buffer, delimiter_byte_value)
     IN  /\ payload_buffer' = r.buf
         /\ cobs_status' = r.status
         /\ cobs_calls' = Append(cobs_calls, [op |-> "encode", ret |-> r.ret,
                                              status |-> r.status, before |-> payload_buffer])
  /\ UNCHANGED <<delimiter_byte_value, decoder, crcVars, tlVars>>

\* a call of cobs_processor.DecodePayload(payload_buffer, delimiter_byte_value)
CobsDecode ==
  /\ Len(cobs_calls) < MaxCobsCalls
  /\ LET r == DecodePayload(payload_buffer, delimiter_byte_value)
     IN  /\ payload_buffer' = r.buf
         /\ cobs_status' = r.status
         /\ cobs_calls' = Append(cobs_calls, [op |-> "decode", ret |-> r.ret,
                                              status |-> r.status, before |-> payload_buffer])
  /\ UNCHANGED <<delimiter_byte_value, decoder, crcVars, tlVars>>

NextCOBS == CobsEncode \/ CobsDecode

SpecCOBS == InitCOBS /\ [][NextCOBS]_vars

(***************************************************************************)
(* Claims about the COBS codec                                             *)
(***************************************************************************)
\* the payload region of a buffer: payload_size bytes from kPayloadStartIndex
PayloadOf(buf) == Slice(buf, kPayloadStartIndex, buf[kPayloadSizeIndex])

\* the buffer meets EncodePayload's documented preconditions
Encodable(buf) ==
  /\ buf[kPayloadSizeIndex] \in kMinPayloadSize..kMaxPayloadSize
  /\ buf[kPayloadSizeIndex] + kOverheadByteIndex + 2 <= BufLen(buf)
  /\ buf[kOverheadByteIndex] = 0

\* the last two calls were EncodePayload on an encodable buffer, then DecodePayload
EncodeThenDecode ==
  /\ Len(cobs_calls) >= 2
  /\ cobs_calls[Len(cobs_calls) - 1].op = "encode"
  /\ Encodable(cobs_calls[Len(cobs_calls) - 1].before)
  /\ cobs_calls[Len(cobs_calls)].op = "decode"

\* the last call was EncodePayload on an encodable buffer
JustEncoded ==
  /\ Len(cobs_calls) >= 1
  /\ cobs_calls[Len(cobs_calls)].op = "encode"
  /\ Encodable(cobs_calls[Len(cobs_calls)].before)

\* C2: for every payload of 1..254 bytes and every delimiter value, EncodePayload then
\* DecodePayload succeed (kPayloadEncoded, kPayloadDecoded), DecodePayload returns the
\* payload size and the payload region is restored byte for byte.
C2_RoundTripAnyDelimiter ==
  EncodeThenDecode =>
    LET enc == cobs_calls[Len(cobs_calls) - 1]
        dec == cobs_calls[Len(cobs_calls)]
    IN  /\ enc.status = kPayloadEncoded
        /\ dec.status = kPayloadDecoded
        /\ dec.ret = enc.before[kPayloadSizeIndex]
        /\ PayloadOf(payload_buffer) = PayloadOf(enc.before)

\* C3: after a successful EncodePayload no byte from the overhead byte through the last
\* encoded payload byte equals the delimiter; the only delimiter-valued byte of
\* [overhead, delimiter] is the appended one.
C3_NoDelimiterInEncodedRegion ==
  JustEncoded =>
    LET size == payload_buffer[kPayloadSizeIndex]
    IN  /\ cobs_status = kPayloadEncoded
        /\ \A i \in kOverheadByteIndex..(kOverheadByteIndex + size) :
             payload_buffer[i] # delimiter_byte_value
        /\ payload_buffer[kOverheadByteIndex + size + 1] = delimiter_byte_value

(***************************************************************************)
(* SpecCRC: the CRC processor applied to buffers drawn from a bounded set  *)
(***************************************************************************)
\* byte values of the data
CrcBytes == {0, 1, 255}
\* the buffer holds MaxCrcData data bytes and room for the widest modelled checksum
CrcBufferSize == MaxCrcData + 2
\* start offsets of the checksummed range
CrcStarts == {0, 1}

InitCRC ==
  /\ crc_processor \in CRCParameters
  /\ \E data \in [0..(MaxCrcData - 1) -> CrcBytes] :
       crc_buffer = [i \in 0..(CrcBufferSize - 1) |-> IF i < MaxCrcData THEN data[i] ELSE 0]
  /\ crc_status = kCRCStandby
  /\ crc_calls = <<>>
  /\ IdleCOBS
  /\ IdleTransportLayer

\* a call of crc_processor.CalculatePacketCRCChecksum(crc_buffer, start_index, packet_size)
CrcCalculate ==
  /\ Len(crc_calls) < MaxCrcCalls
  /\ \E start_index \in CrcStarts : \E packet_size \in 0..(CrcBufferSize + 1 - start_index) :
       LET r == CalculatePacketCRCChecksum(crc_processor, crc_buffer, start_index, packet_size)
       IN  /\ crc_status' = r.status
           /\ crc_calls' = Append(crc_calls, [op |-> "calculate", start |-> start_index,
                                              size |-> packet_size, ret |-> r.ret,
                                              status |-> r.status])
  /\ UNCHANGED <<crc_processor, crc_buffer, cobsVars, tlVars>>

\* a call of crc_processor.AddCRCChecksumToBuffer(crc_buffer, start_index, checksum) with the
\* checksum the previous call calculated, right behind the checksummed range or at the last
\* index of the buffer
CrcAdd ==
  /\ Len(crc_calls) < MaxCrcCalls
  /\ Len(crc_calls) >= 1
  /\ crc_calls[Len(crc_calls)].op = "calculate"
  /\ crc_calls[Len(crc_calls)].status = kCRCChecksumCalculated
  /\ LET calc == crc_calls[Len(crc_calls)]
     IN  \E start_index \in {calc.start + calc.size, CrcBufferSize - 1} :
           LET r == AddCRCChecksumToBuffer(crc_processor, crc_buffer, start_index, calc.ret)
           IN  /\ crc_buffer' = r.buf
               /\ crc_status' = r.status
               /\ crc_calls' = Append(crc_calls, [op |-> "add", start |-> start_index,
                                                  size |-> crc_processor.width,
                                                  ret |-> r.ret, status |-> r.status])
  /\ UNCHANGED <<crc_processor, cobsVars, tlVars>>

NextCRC == CrcCalculate \/ CrcAdd

SpecCRC == InitCRC /\ [][NextCRC]_vars

(***************************************************************************)
(* Claims about the CRC codec                                              *)
(***************************************************************************)
\* the last three calls were: the checksum of a range, that checksum appended right
\* behind the range, the checksum of the range extended by the appended bytes
AppendedAndRecomputed ==
  /\ Len(crc_calls) >= 3
  /\ LET n == Len(crc_calls)
         first == crc_calls[n - 2]
         add == crc_calls[n - 1]
         again == crc_calls[n]
     IN  /\ first.op = "calculate" /\ first.status = kCRCChecksumCalculated
         /\ add.op = "add" /\ add.status = kCRCChecksumAddedToBuffer
         /\ add.start = first.start + first.size
         /\ again.op = "calculate" /\ again.status = kCRCChecksumCalculated
         /\ again.start = first.start
         /\ again.size = first.size + crc_processor.width

\* the checksum, computed with initial value 0, of the width bytes of final_xor_value
XorOutResidue(crc) ==
  LET xor_bytes == [i \in 0..(crc.width - 1) |-> ChecksumByte(crc.final_xor_value, crc.width, i)]
  IN  CalculatePacketCRCChecksum([crc EXCEPT !.initial_value = 0], xor_bytes, 0, crc.width).ret

\* C4 as stated: appending the checksum of B to B most-significant byte first and
\* recomputing over B plus the appended bytes yields final_xor_value.
C4_RecomputedIsXorOut ==
  AppendedAndRecomputed => crc_calls[Len(crc_calls)].ret = crc_processor.final_xor_value

\* C4 amended: the recomputed checksum is 0 when final_xor_value is 0, and in general it
\* is a constant of the parameters, the checksum with initial value 0 of the bytes of
\* final_xor_value.
C4_RecomputedIsResidue ==
  AppendedAndRecomputed =>
    /\ crc_calls[Len(crc_calls)].ret = XorOutResidue(crc_processor)
    /\ crc_processor.final_xor_value = 0 => crc_calls[Len(crc_calls)].ret = 0

\* C4 witness: under a two-byte checksum with a non-zero final XOR value, a non-empty
\* range was checksummed, extended by its checksum and recomputed
C4_Witness ==
  /\ AppendedAndRecomputed
  /\ crc_calls[Len(crc_calls) - 2].size >= 1
  /\ crc_processor.width = 2
  /\ crc_processor.final_xor_value # 0

(***************************************************************************)
(* TransportLayer<PolynomialType, kMaximumTransmittedPayloadSize,          *)
(*                kMaximumReceivedPayloadSize, kMinimumPayloadSize>        *)
(***************************************************************************)
kPostambleSize(crc) == crc.width
\* a variant of kMinimumPacketSize that is one byte larger
kMinimumPacketSizePlusOne(crc) == kMinimumPayloadSize + kOverheadByteIndex + kPostambleSize(crc) + 1

kMinimumPacketSize(crc) == kMinimumPayloadSize + kOverheadByteIndex + kPostambleSize(crc)
kTransmissionBufferSize(crc) ==
  kMaximumTransmittedPayloadSize + kOverheadByteIndex + 2 + kPostambleSize(crc)
kReceptionBufferSize(crc) ==
  kMaximumReceivedPayloadSize + kOverheadByteIndex + 2 + kPostambleSize(crc)

\* memcpy(&buffer[at], &object, Len(object))
CopyInto(buffer, at, object) ==
  [i \in DOMAIN buffer |-> IF i >= at /\ i < at + Len(object) THEN object[i - at + 1] ELSE buffer[i]]

\* ResetTransmissionBuffer and ResetReceptionBuffer have the same body
ResetBuffer(buffer) ==
  [buffer EXCEPT ![kPayloadSizeIndex] = 0, ![kOverheadByteIndex] = 0]

Max(a, b) == IF a >= b THEN a ELSE b

\* a variant of WriteData's payload_size update that stores the end of the last write
LastRequiredSize(payload_size, required_size) == required_size

\* WriteData's update of the payload_size byte
UpdatedPayloadSize(payload_size, required_size) == Max(payload_size, U8(required_size))

\* TransportLayer::WriteData(object, start_index, provided_bytes): the buffer after the
\* call, the value returned and transfer_status.  required_size and local_start_index
\* are uint16_t.
WriteData(buffer, object, start_index, provided_bytes) ==
  LET required_size == U16(start_index + provided_bytes)
      local_start_index == U16(start_index + kPayloadStartIndex)
      written == CopyInto(buffer, local_start_index, object)
  IN  IF required_size > kMaximumTransmittedPayloadSize
      THEN [buf |-> buffer, ret |-> 0, status |-> kWriteObjectBufferError]
      ELSE [buf |-> [written EXCEPT ![kPayloadSizeIndex] =
                       UpdatedPayloadSize(written[kPayloadSizeIndex], required_size)],
            ret |-> required_size,
            status |-> kObjectWrittenToBuffer]

\* TransportLayer::ReadData(object, start_index, requested_bytes): the bytes copied into
\* the object, the value returned and transfer_status
ReadData(buffer, start_index, requested_bytes) ==
  LET required_size == U16(start_index + requested_bytes)
      local_start_index == U16(start_index + kPayloadStartIndex)
  IN  IF required_size > buffer[kPayloadSizeIndex]
      THEN [object |-> <<>>, ret |-> 0, status |-> kReadObjectBufferError]
      ELSE [object |-> Slice(buffer, local_start_index, requested_bytes),
            ret |-> required_size,
            status |-> kObjectReadFromBuffer]

\* a variant of ConstructPacket that goes on to the checksum when the encoder has failed
ConstructPacketIgnoringEncoderError(buffer, crc, delimiter, old_cobs_status, old_crc_status) ==
  Only({
    Only({
      IF sum.status # kCRCChecksumCalculated
      THEN [buf |-> enc.buf, ret |-> 0, status |-> sum.status,
            cobs |-> enc.status, crc |-> sum.status]
      ELSE Only({
        IF add.ret = 0
        THEN [buf |-> add.buf, ret |-> 0, status |-> add.status,
              cobs |-> enc.status, crc |-> add.status]
        ELSE [buf |-> add.buf, ret |-> add.ret, status |-> kPacketConstructed,
              cobs |-> enc.status, crc |-> add.status] :
          add \in {AddCRCChecksumToBuffer(crc, enc.buf, enc.ret + kOverheadByteIndex, sum.ret)}}) :
        sum \in {CalculatePacketCRCChecksum(crc, enc.buf, kOverheadByteIndex, enc.ret)}}) :
      enc \in {EncodePayload(buffer, delimiter)}})

\* TransportLayer::ConstructPacket: the buffer after the call, the value returned,
\* transfer_status and the two processors' statuses
ConstructPacket(buffer, crc, delimiter, old_cobs_status, old_crc_status) ==
  Only({
    IF enc.ret = 0
    THEN [buf |-> enc.buf, ret |-> 0, status |-> enc.status,
          cobs |-> enc.status, crc |-> old_crc_status]
    ELSE Only({
      IF sum.status # kCRCChecksumCalculated
      THEN [buf |-> enc.buf, ret |-> 0, status |-> sum.status,
            cobs |-> enc.status, crc |-> sum.status]
      ELSE Only({
        IF add.ret = 0
        THEN [buf |-> add.buf, ret |-> 0, status |-> add.status,
              cobs |-> enc.status, crc |-> add.status]
        ELSE [buf |-> add.buf, ret |-> add.ret, status |-> kPacketConstructed,
              cobs |-> enc.status, crc |-> add.status] :
          add \in {AddCRCChecksumToBuffer(crc, enc.buf, enc.ret + kOverheadByteIndex, sum.ret)}}) :
        sum \in {CalculatePacketCRCChecksum(crc, enc.buf, kOverheadByteIndex, enc.ret)}}) :
      enc \in {EncodePayload(buffer, delimiter)}})

\* a variant of the first loop of ParsePacket that leaves a stream without start byte as
\* it found it
FindStartByteKeepingStream(stream) ==
  LET at == {i \in 1..Len(stream) : stream[i] = kStartByte}
      first == CHOOSE i \in at : \A j \in at : i <= j
  IN  IF at = {} THEN [stream |-> stream, found |-> FALSE]
      ELSE [stream |-> SubSeq(stream, first + 1, Len(stream)), found |-> TRUE]

\* the first loop of ParsePacket: the bytes left on the stream once the loop ends, and
\* whether it ended on a start byte
FindStartByte(stream) ==
  LET at == {i \in 1..Len(stream) : stream[i] = kStartByte}
      first == CHOOSE i \in at : \A j \in at : i <= j
  IN  IF at = {} THEN [stream |-> <<>>, found |-> FALSE]
      ELSE [stream |-> SubSeq(stream, first + 1, Len(stream)), found |-> TRUE]

\* a variant of the third loop of ParsePacket that reads all remaining_size bytes and
\* does not stop at a delimiter
RECURSIVE ReadPacketLoopPastDelimiter(_, _, _, _, _)
ReadPacketLoopPastDelimiter(stream, buffer, bytes_read, remaining_size, delimiter) ==
  IF bytes_read >= remaining_size
  THEN [stream |-> stream, buf |-> buffer, bytes_read |-> bytes_read,
        delimiter_found |-> FALSE, timed_out |-> FALSE]
  ELSE IF stream = <<>>
  THEN [stream |-> stream, buf |-> buffer, bytes_read |-> bytes_read,
        delimiter_found |-> FALSE, timed_out |-> TRUE]
  ELSE Only({
         [read EXCEPT !.delimiter_found = read.delimiter_found \/ Head(stream) = delimiter] :
           read \in {ReadPacketLoopPastDelimiter(Tail(stream),
                                                 [buffer EXCEPT ![bytes_read] = Head(stream)],
                                                 bytes_read + 1, remaining_size, delimiter)}})

\* the third loop of ParsePacket.  The bytes of the stream are the bytes that arrive
\* before the loop's timeout: the loop times out when it needs a byte and none is left.
RECURSIVE ReadPacketLoop(_, _, _, _, _)
ReadPacketLoop(stream, buffer, bytes_read, remaining_size, delimiter) ==
  IF bytes_read >= remaining_size
  THEN [stream |-> stream, buf |-> buffer, bytes_read |-> bytes_read,
        delimiter_found |-> FALSE, timed_out |-> FALSE]
  ELSE IF stream = <<>>
  THEN [stream |-> stream, buf |-> buffer, bytes_read |-> bytes_read,
        delimiter_found |-> FALSE, timed_out |-> TRUE]
  ELSE Only({
         IF Head(stream) = delimiter
         THEN [stream |-> rest, buf |-> stored, bytes_read |-> bytes_read + 1,
               delimiter_found |-> TRUE, timed_out |-> FALSE]
         ELSE ReadPacketLoop(rest, stored, bytes_read + 1, remaining_size, delimiter) :
           rest \in {Tail(stream)},
           stored \in {[buffer EXCEPT ![bytes_read] = Head(stream)]}})

\* the fourth loop of ParsePacket
RECURSIVE ReadPostambleLoop(_, _, _, _)
ReadPostambleLoop(stream, buffer, bytes_read, postamble_size) ==
  IF bytes_read >= postamble_size
  THEN [stream |-> stream, buf |-> buffer, bytes_read |-> bytes_read, timed_out |-> FALSE]
  ELSE IF stream = <<>>
  THEN [stream |-> stream, buf |-> buffer, bytes_read |-> bytes_read, timed_out |-> TRUE]
  ELSE Only({ReadPostambleLoop(rest, stored, bytes_read + 1, postamble_size) :
               rest \in {Tail(stream)},
               stored \in {[buffer EXCEPT ![bytes_read] = Head(stream)]}})

\* what ParsePacket does once it has read a valid payload_size byte: the third and the
\* fourth loop and the checks that follow them
ParsePacketBody(stream, sized, size_byte, crc, delimiter) ==
  Only({
    IF body.timed_out
    THEN [stream |-> body.stream, buf |-> body.buf, ret |-> 0,
          status |-> kPacketTimeoutError]
    ELSE IF ~body.delimiter_found
    THEN [stream |-> body.stream, buf |-> body.buf, ret |-> 0,
          status |-> kDelimiterNotFoundError]
    ELSE IF body.bytes_read # size_byte + kOverheadByteIndex + 2
    THEN [stream |-> body.stream, buf |-> body.buf, ret |-> 0,
          status |-> kDelimiterFoundTooEarlyError]
    ELSE Only({
      IF post.timed_out
      THEN [stream |-> post.stream, buf |-> post.buf, ret |-> 0,
            status |-> kPostambleTimeoutError]
      ELSE [stream |-> post.stream, buf |-> post.buf,
            ret |-> post.bytes_read - kOverheadByteIndex, status |-> kPacketParsed] :
        post \in {ReadPostambleLoop(body.stream, body.buf, body.bytes_read,
                                    size_byte + kOverheadByteIndex + 2 + kPostambleSize(crc))}}) :
      body \in {ReadPacketLoop(stream, sized, kOverheadByteIndex,
                               size_byte + kOverheadByteIndex + 2, delimiter)}})

\* a variant of ParsePacket that takes every payload_size byte as valid
ParsePacketAcceptingAnySize(stream, buffer, crc, delimiter, allow_errors, old_status) ==
  Only({
    IF ~(start.found \/ old_status = kPacketStartByteFound)
    THEN [stream |-> start.stream, buf |-> buffer, ret |-> 0,
          status |-> IF allow_errors THEN kPacketStartByteNotFound
                     ELSE kNoBytesToParseFromBuffer]
    ELSE IF start.stream = <<>>
    THEN [stream |-> start.stream, buf |-> buffer, ret |-> 0,
          status |-> kPayloadSizeByteNotFound]
    ELSE Only({
      ParsePacketBody(rest, sized, size_byte, crc, delimiter) :
        size_byte \in {Head(start.stream)},
        rest \in {Tail(start.stream)},
        sized \in {[buffer EXCEPT ![kPayloadSizeIndex] = Head(start.stream)]}}) :
      start \in {FindStartByte(stream)}})

\* TransportLayer::ParsePacket: the stream and the reception buffer after the call, the
\* value returned and transfer_status
ParsePacket(stream, buffer, crc, delimiter, allow_errors, old_status) ==
  Only({
    IF ~(start.found \/ old_status = kPacketStartByteFound)
    THEN [stream |-> start.stream, buf |-> buffer, ret |-> 0,
          status |-> IF allow_errors THEN kPacketStartByteNotFound
                     ELSE kNoBytesToParseFromBuffer]
    ELSE IF start.stream = <<>>
    THEN [stream |-> start.stream, buf |-> buffer, ret |-> 0,
          status |-> kPayloadSizeByteNotFound]
    ELSE Only({
      IF size_byte < kMinimumPayloadSize \/ size_byte > kMaximumReceivedPayloadSize
      THEN [stream |-> rest, buf |-> sized, ret |-> 0, status |-> kInvalidPayloadSize]
      ELSE ParsePacketBody(rest, sized, size_byte, crc, delimiter) :
        size_byte \in {Head(start.stream)},
        rest \in {Tail(start.stream)},
        sized \in {[buffer EXCEPT ![kPayloadSizeIndex] = Head(start.stream)]}}) :
      start \in {FindStartByte(stream)}})

\* a variant of ValidatePacket that decodes the payload before it looks at the checksum
ValidatePacketDecodingFirst(buffer, packet_size, crc, delimiter, old_cobs_status) ==
  Only({
    IF sum.status # kCRCChecksumCalculated
    THEN [buf |-> buffer, ret |-> 0, status |-> sum.status,
          cobs |-> old_cobs_status, crc |-> sum.status]
    ELSE IF dec.ret = 0
    THEN [buf |-> dec.buf, ret |-> 0, status |-> dec.status,
          cobs |-> dec.status, crc |-> sum.status]
    ELSE IF sum.ret # 0
    THEN [buf |-> dec.buf, ret |-> 0, status |-> kCRCCheckFailed,
          cobs |-> dec.status, crc |-> sum.status]
    ELSE [buf |-> dec.buf, ret |-> dec.ret, status |-> kPacketValidated,
          cobs |-> dec.status, crc |-> sum.status] :
      sum \in {CalculatePacketCRCChecksum(crc, buffer, kOverheadByteIndex, packet_size)},
      dec \in {DecodePayload(buffer, delimiter)}})

\* a variant of ValidatePacket that reports a failure of the decoder as kCRCCheckFailed
ValidatePacketRewritingDecoderStatus(buffer, packet_size, crc, delimiter, old_cobs_status) ==
  Only({
    IF sum.status # kCRCChecksumCalculated
    THEN [buf |-> buffer, ret |-> 0, status |-> sum.status,
          cobs |-> old_cobs_status, crc |-> sum.status]
    ELSE IF sum.ret # 0
    THEN [buf |-> buffer, ret |-> 0, status |-> kCRCCheckFailed,
          cobs |-> old_cobs_status, crc |-> sum.status]
    ELSE Only({
      IF dec.ret = 0
      THEN [buf |-> dec.buf, ret |-> 0, status |-> kCRCCheckFailed,
            cobs |-> dec.status, crc |-> sum.status]
      ELSE [buf |-> dec.buf, ret |-> dec.ret, status |-> kPacketValidated,
            cobs |-> dec.status, crc |-> sum.status] :
        dec \in {DecodePayload(buffer, delimiter)}}) :
      sum \in {CalculatePacketCRCChecksum(crc, buffer, kOverheadByteIndex, packet_size)}})

\* TransportLayer::ValidatePacket: the reception buffer after the call, the value
\* returned, transfer_status and the two processors' statuses
ValidatePacket(buffer, packet_size, crc, delimiter, old_cobs_status) ==
  Only({
    IF sum.status # kCRCChecksumCalculated
    THEN [buf |-> buffer, ret |-> 0, status |-> sum.status,
          cobs |-> old_cobs_status, crc |-> sum.status]
    ELSE IF sum.ret # 0
    THEN [buf |-> buffer, ret |-> 0, status |-> kCRCCheckFailed,
          cobs |-> old_cobs_status, crc |-> sum.status]
    ELSE Only({
      IF dec.ret = 0
      THEN [buf |-> dec.buf, ret |-> 0, status |-> dec.status,
            cobs |-> dec.status, crc |-> sum.status]
      ELSE [buf |-> dec.buf, ret |-> dec.ret, status |-> kPacketValidated,
            cobs |-> dec.status, crc |-> sum.status] :
        dec \in {DecodePayload(buffer, delimiter)}}) :
      sum \in {CalculatePacketCRCChecksum(crc, buffer, kOverheadByteIndex, packet_size)}})

\* TransportLayer::Available
Available(stream, crc) == Len(stream) >= kMinimumPacketSize(crc)

\* a variant of ReceiveData that parses into the reception buffer as the previous call
\* left it
ReceiveDataWithoutReset(stream, buffer, crc, delimiter, allow_errors, old_status, old_cobs_status, old_crc_status) ==
  IF ~Available(stream, crc)
  THEN [stream |-> stream, buf |-> buffer, ret |-> FALSE,
        status |-> kNoBytesToParseFromBuffer,
        cobs |-> old_cobs_status, crc |-> old_crc_status]
  ELSE Only({
    IF parsed.ret = 0
    THEN [stream |-> parsed.stream, buf |-> parsed.buf, ret |-> FALSE,
          status |-> parsed.status, cobs |-> old_cobs_status, crc |-> old_crc_status]
    ELSE Only({
      IF valid.ret = 0
      THEN [stream |-> parsed.stream, buf |-> valid.buf, ret |-> FALSE,
            status |-> valid.status, cobs |-> valid.cobs, crc |-> valid.crc]
      ELSE [stream |-> parsed.stream, buf |-> valid.buf, ret |-> TRUE,
            status |-> kPacketReceived, cobs |-> valid.cobs, crc |-> valid.crc] :
        valid \in {ValidatePacket(parsed.buf, parsed.ret, crc, delimiter, old_cobs_status)}}) :
      parsed \in {ParsePacket(stream, buffer, crc, delimiter, allow_errors, old_status)}})

\* a variant of ReceiveData that resets the reception buffer before it looks at the stream
ReceiveDataResettingFirst(stream, buffer, crc, delimiter, allow_errors, old_status, old_cobs_status, old_crc_status) ==
  IF ~Available(stream, crc)
  THEN [stream |-> stream, buf |-> ResetBuffer(buffer), ret |-> FALSE,
        status |-> kNoBytesToParseFromBuffer,
        cobs |-> old_cobs_status, crc |-> old_crc_status]
  ELSE Only({
    IF parsed.ret = 0
    THEN [stream |-> parsed.stream, buf |-> parsed.buf, ret |-> FALSE,
          status |-> parsed.status, cobs |-> old_cobs_status, crc |-> old_crc_status]
    ELSE Only({
      IF valid.ret = 0
      THEN [stream |-> parsed.stream, buf |-> valid.buf, ret |-> FALSE,
            status |-> valid.status, cobs |-> valid.cobs, crc |-> valid.crc]
      ELSE [stream |-> parsed.stream, buf |-> valid.buf, ret |-> TRUE,
            status |-> kPacketReceived, cobs |-> valid.cobs, crc |-> valid.crc] :
        valid \in {ValidatePacket(parsed.buf, parsed.ret, crc, delimiter, old_cobs_status)}}) :
      parsed \in {ParsePacket(stream, ResetBuffer(buffer), crc, delimiter, allow_errors,
                              old_status)}})

\* a variant of ReceiveData that leaves transfer_status as ValidatePacket set it
ReceiveDataKeepingStatus(stream, buffer, crc, delimiter, allow_errors, old_status, old_cobs_status, old_crc_status) ==
  IF ~Available(stream, crc)
  THEN [stream |-> stream, buf |-> buffer, ret |-> FALSE,
        status |-> kNoBytesToParseFromBuffer,
        cobs |-> old_cobs_status, crc |-> old_crc_status]
  ELSE Only({
    IF parsed.ret = 0
    THEN [stream |-> parsed.stream, buf |-> parsed.buf, ret |-> FALSE,
          status |-> parsed.status, cobs |-> old_cobs_status, crc |-> old_crc_status]
    ELSE Only({
      IF valid.ret = 0
      THEN [stream |-> parsed.stream, buf |-> valid.buf, ret |-> FALSE,
            status |-> valid.status, cobs |-> valid.cobs, crc |-> valid.crc]
      ELSE [stream |-> parsed.stream, buf |-> valid.buf, ret |-> TRUE,
            status |-> valid.status, cobs |-> valid.cobs, crc |-> valid.crc] :
        valid \in {ValidatePacket(parsed.buf, parsed.ret, crc, delimiter, old_cobs_status)}}) :
      parsed \in {ParsePacket(stream, ResetBuffer(buffer), crc, delimiter, allow_errors,
                              old_status)}})

\* a variant of ReceiveData that discards what is left on the stream once it has received
\* a packet
ReceiveDataDrainingStream(stream, buffer, crc, delimiter, allow_errors, old_status, old_cobs_status, old_crc_status) ==
  IF ~Available(stream, crc)
  THEN [stream |-> stream, buf |-> buffer, ret |-> FALSE,
        status |-> kNoBytesToParseFromBuffer,
        cobs |-> old_cobs_status, crc |-> old_crc_status]
  ELSE Only({
    IF parsed.ret = 0
    THEN [stream |-> parsed.stream, buf |-> parsed.buf, ret |-> FALSE,
          status |-> parsed.status, cobs |-> old_cobs_status, crc |-> old_crc_status]
    ELSE Only({
      IF valid.ret = 0
      THEN [stream |-> parsed.stream, buf |-> valid.buf, ret |-> FALSE,
            status |-> valid.status, cobs |-> valid.cobs, crc |-> valid.crc]
      ELSE [stream |-> <<>>, buf |-> valid.buf, ret |-> TRUE,
            status |-> kPacketReceived, cobs |-> valid.cobs, crc |-> valid.crc] :
        valid \in {ValidatePacket(parsed.buf, parsed.ret, crc, delimiter, old_cobs_status)}}) :
      parsed \in {ParsePacket(stream, ResetBuffer(buffer), crc, delimiter, allow_errors,
                              old_status)}})

\* a variant of ReceiveData that resets the reception buffer when the packet fails
\* validation
ReceiveDataResettingOnFailure(stream, buffer, crc, delimiter, allow_errors, old_status, old_cobs_status, old_crc_status) ==
  IF ~Available(stream, crc)
  THEN [stream |-> stream, buf |-> buffer, ret |-> FALSE,
        status |-> kNoBytesToParseFromBuffer,
        cobs |-> old_cobs_status, crc |-> old_crc_status]
  ELSE Only({
    IF parsed.ret = 0
    THEN [stream |-> parsed.stream, buf |-> parsed.buf, ret |-> FALSE,
          status |-> parsed.status, cobs |-> old_cobs_status, crc |-> old_crc_status]
    ELSE Only({
      IF valid.ret = 0
      THEN [stream |-> parsed.stream, buf |-> ResetBuffer(valid.buf), ret |-> FALSE,
            status |-> valid.status, cobs |-> valid.cobs, crc |-> valid.crc]
      ELSE [stream |-> parsed.stream, buf |-> valid.buf, ret |-> TRUE,
            status |-> kPacketReceived, cobs |-> valid.cobs, crc |-> valid.crc] :
        valid \in {ValidatePacket(parsed.buf, parsed.ret, crc, delimiter, old_cobs_status)}}) :
      parsed \in {ParsePacket(stream, ResetBuffer(buffer), crc, delimiter, allow_errors,
                              old_status)}})

\* TransportLayer::ReceiveData: the stream and the reception buffer after the call, the
\* value returned, transfer_status and the two processors' statuses
ReceiveData(stream, buffer, crc, delimiter, allow_errors, old_status, old_cobs_status, old_crc_status) ==
  IF ~Available(stream, crc)
  THEN [stream |-> stream, buf |-> buffer, ret |-> FALSE,
        status |-> kNoBytesToParseFromBuffer,
        cobs |-> old_cobs_status, crc |-> old_crc_status]
  ELSE Only({
    IF parsed.ret = 0
    THEN [stream |-> parsed.stream, buf |-> parsed.buf, ret |-> FALSE,
          status |-> parsed.status, cobs |-> old_cobs_status, crc |-> old_crc_status]
    ELSE Only({
      IF valid.ret = 0
      THEN [stream |-> parsed.stream, buf |-> valid.buf, ret |-> FALSE,
            status |-> valid.status, cobs |-> valid.cobs, crc |-> valid.crc]
      ELSE [stream |-> parsed.stream, buf |-> valid.buf, ret |-> TRUE,
            status |-> kPacketReceived, cobs |-> valid.cobs, crc |-> valid.crc] :
        valid \in {ValidatePacket(parsed.buf, parsed.ret, crc, delimiter, old_cobs_status)}}) :
      parsed \in {ParsePacket(stream, ResetBuffer(buffer), crc, delimiter, allow_errors,
                              old_status)}})

\* a variant of SendData that writes the packet without its preamble, from the overhead
\* byte through the last checksum byte
SendDataWithoutPreamble(buffer, crc, delimiter, old_cobs_status, old_crc_status) ==
  Only({
    IF packet.ret # 0
    THEN [written |-> Slice(packet.buf, kOverheadByteIndex, packet.ret - kOverheadByteIndex),
          buf |-> ResetBuffer(packet.buf),
          ret |-> TRUE, status |-> kPacketSent, cobs |-> packet.cobs, crc |-> packet.crc]
    ELSE [written |-> <<>>, buf |-> packet.buf, ret |-> FALSE, status |-> packet.status,
          cobs |-> packet.cobs, crc |-> packet.crc] :
      packet \in {ConstructPacket(buffer, crc, delimiter, old_cobs_status, old_crc_status)}})

\* TransportLayer::SendData: the bytes written to the stream, the transmission buffer
\* after the call, the value returned, transfer_status and the two processors' statuses
SendData(buffer, crc, delimiter, old_cobs_status, old_crc_status) ==
  Only({
    IF packet.ret # 0
    THEN [written |-> Slice(packet.buf, 0, packet.ret), buf |-> ResetBuffer(packet.buf),
          ret |-> TRUE, status |-> kPacketSent, cobs |-> packet.cobs, crc |-> packet.crc]
    ELSE [written |-> <<>>, buf |-> packet.buf, ret |-> FALSE, status |-> packet.status,
          cobs |-> packet.cobs, crc |-> packet.crc] :
      packet \in {ConstructPacket(buffer, crc, delimiter, old_cobs_status, old_crc_status)}})

\* TransportLayer::CopyTxBufferPayloadToRxBuffer: the reception buffer after the call and
\* the value returned
CopyTxBufferPayloadToRxBuffer(tx_buffer, rx_buffer) ==
  IF tx_buffer[kPayloadSizeIndex] > kMaximumReceivedPayloadSize
  THEN [buf |-> rx_buffer, ret |-> FALSE]
  ELSE [buf |-> [CopyInto(rx_buffer, kPayloadStartIndex, PayloadOf(tx_buffer))
                   EXCEPT ![kPayloadSizeIndex] = tx_buffer[kPayloadSizeIndex]],
        ret |-> TRUE]

(***************************************************************************)
(* Spec: one TransportLayer whose Stream is looped back to itself, as in   *)
(* the repository's tests, with an environment that may corrupt bytes      *)
(***************************************************************************)
\* the constructor arguments of the modelled instances: delimiter_byte and the CRC
\* parameters (the default ones, a non-zero delimiter, a non-zero final XOR value, a
\* two-byte checksum)
Configurations == {<<0, CRC8>>, <<1, CRC8>>, <<0, CRC8Xor>>, <<0, CRC16>>}
\* byte values of the objects written
ObjectBytes == {0, 1}
\* the objects written: every byte string that fits the payload region and two that do
\* not (all ones, and all ones with a last byte 0)
Objects ==
  UNION {[1..n -> ObjectBytes] : n \in 0..kMaximumTransmittedPayloadSize}
    \cup {[i \in 1..(kMaximumTransmittedPayloadSize + 1) |-> 1],
          [i \in 1..(kMaximumTransmittedPayloadSize + 1) |->
             IF i = kMaximumTransmittedPayloadSize + 1 THEN 0 ELSE 1]}
\* start_index arguments of WriteData: the offsets of the payload region and the three
\* largest values of uint16_t
WriteStarts == (0..kMaximumTransmittedPayloadSize) \cup {65533, 65534, 65535}
\* start_index arguments of ReadData
ReadStarts == (0..kMaximumReceivedPayloadSize) \cup {65535}
\* bit masks the environment flips in a byte of the stream
NoiseMasks == {1, 4}

Init ==
  /\ \E configuration \in Configurations :
       /\ kDelimiterByte = configuration[1]
       /\ crc_processor = configuration[2]
  /\ allow_start_byte_errors = FALSE
  /\ transmission_buffer =
       [i \in 0..(kTransmissionBufferSize(crc_processor) - 1) |-> IF i = 0 THEN kStartByte ELSE 0]
  /\ reception_buffer = [i \in 0..(kReceptionBufferSize(crc_processor) - 1) |-> 0]
  /\ transfer_status = kStandby
  /\ cobs_status = kCOBSStandby
  /\ crc_status = kCRCStandby
  /\ port_rx = <<>>
  /\ port_tx = <<>>
  /\ calls = 0
  /\ last = NoCall
  /\ sent_packet = <<>>
  /\ sent_payload = <<>>
  /\ corruptions = 0
  /\ in_flight = <<>>
  /\ timing = IdleTiming
  /\ parser = IdleParser
  /\ payload_buffer = <<>>
  /\ delimiter_byte_value = 0
  /\ cobs_calls = <<>>
  /\ decoder = IdleDecoder
  /\ crc_buffer = <<>>
  /\ crc_calls = <<>>

\* the constructor arguments and the variables of the stand-alone codecs
Constructed == <<kDelimiterByte, crc_processor, payload_buffer, delimiter_byte_value,
                 cobs_calls, decoder, crc_buffer, crc_calls>>
\* what no TransportLayer call and no step of the environment changes
Fixed == <<Constructed, in_flight, timing, parser>>

Called(op, start_index, bytes, object, ret, ok) ==
  /\ calls' = calls + 1
  /\ last' = [op |-> op, start_index |-> start_index, bytes |-> bytes, object |-> object,
              ret |-> ret, ok |-> ok]

CallWriteData ==
  /\ calls < MaxCalls
  /\ \E start_index \in WriteStarts, object \in Objects :
       \E r \in {WriteData(transmission_buffer, object, start_index, Len(object))} :
           /\ transmission_buffer' = r.buf
           /\ transfer_status' = r.status
           /\ Called("WriteData", start_index, Len(object), object, r.ret, r.ret # 0)
  /\ UNCHANGED <<Fixed, allow_start_byte_errors, reception_buffer, cobs_status, crc_status,
                 port_rx, port_tx, sent_packet, sent_payload, corruptions>>

\* the objects read are small enough for the bytes copied to lie inside _reception_buffer
CallReadData ==
  /\ calls < MaxCalls
  /\ \E start_index \in ReadStarts, requested_bytes \in 0..(kMaximumReceivedPayloadSize + 1) :
       /\ U16(start_index + kPayloadStartIndex) + requested_bytes <= BufLen(reception_buffer)
       /\ \E r \in {ReadData(reception_buffer, start_index, requested_bytes)} :
              /\ transfer_status' = r.status
              /\ Called("ReadData", start_index, requested_bytes, r.object, r.ret, r.ret # 0)
  /\ UNCHANGED <<Fixed, allow_start_byte_errors, transmission_buffer, reception_buffer,
                 cobs_status, crc_status, port_rx, port_tx, sent_packet, sent_payload,
                 corruptions>>

CallSendData ==
  /\ calls < MaxCalls
  /\ \E r \in {SendData(transmission_buffer, crc_processor, kDelimiterByte, cobs_status,
                       crc_status)} :
         /\ transmission_buffer' = r.buf
         /\ transfer_status' = r.status
         /\ cobs_status' = r.cobs
         /\ crc_status' = r.crc
         /\ port_tx' = port_tx \o r.written
         /\ sent_packet' = IF r.ret THEN r.written ELSE sent_packet
         /\ sent_payload' = IF r.ret THEN PayloadOf(transmission_buffer) ELSE sent_payload
         /\ Called("SendData", 0, 0, <<>>, Len(r.written), r.ret)
  /\ UNCHANGED <<Fixed, allow_start_byte_errors, reception_buffer, port_rx, corruptions>>

CallReceiveData ==
  /\ calls < MaxCalls
  /\ \E r \in {ReceiveData(port_rx, reception_buffer, crc_processor, kDelimiterByte,
                          allow_start_byte_errors, transfer_status, cobs_status, crc_status)} :
         /\ port_rx' = r.stream
         /\ reception_buffer' = r.buf
         /\ transfer_status' = r.status
         /\ cobs_status' = r.cobs
         /\ crc_status' = r.crc
         /\ Called("ReceiveData", 0, 0, <<>>, 0, r.ret)
  /\ UNCHANGED <<Fixed, allow_start_byte_errors, transmission_buffer, port_tx, sent_packet,
                 sent_payload, corruptions>>

CallAvailable ==
  /\ calls < MaxCalls
  /\ Called("Available", 0, 0, <<>>, 0, Available(port_rx, crc_processor))
  /\ UNCHANGED <<Fixed, allow_start_byte_errors, transmission_buffer, reception_buffer,
                 transfer_status, cobs_status, crc_status, port_rx, port_tx, sent_packet,
                 sent_payload, corruptions>>

CallResetTransmissionBuffer ==
  /\ calls < MaxCalls
  /\ transmission_buffer' = ResetBuffer(transmission_buffer)
  /\ Called("ResetTransmissionBuffer", 0, 0, <<>>, 0, TRUE)
  /\ UNCHANGED <<Fixed, allow_start_byte_errors, reception_buffer, transfer_status,
                 cobs_status, crc_status, port_rx, port_tx, sent_packet, sent_payload,
                 corruptions>>

CallResetReceptionBuffer ==
  /\ calls < MaxCalls
  /\ reception_buffer' = ResetBuffer(reception_buffer)
  /\ Called("ResetReceptionBuffer", 0, 0, <<>>, 0, TRUE)
  /\ UNCHANGED <<Fixed, allow_start_byte_errors, transmission_buffer, transfer_status,
                 cobs_status, crc_status, port_rx, port_tx, sent_packet, sent_payload,
                 corruptions>>

CallCopyTxBufferPayloadToRxBuffer ==
  /\ calls < MaxCalls
  /\ \E r \in {CopyTxBufferPayloadToRxBuffer(transmission_buffer, reception_buffer)} :
         /\ reception_buffer' = r.buf
         /\ Called("CopyTxBufferPayloadToRxBuffer", 0, 0, <<>>, 0, r.ret)
  /\ UNCHANGED <<Fixed, allow_start_byte_errors, transmission_buffer, transfer_status,
                 cobs_status, crc_status, port_rx, port_tx, sent_packet, sent_payload,
                 corruptions>>

\* TransportLayer::set_allow_start_byte_errors
CallSetAllowStartByteErrors ==
  /\ calls < MaxCalls
  /\ \E flag \in BOOLEAN :
       /\ allow_start_byte_errors' = flag
       /\ Called("set_allow_start_byte_errors", 0, 0, <<>>, 0, flag)
  /\ UNCHANGED <<Fixed, transmission_buffer, reception_buffer, transfer_status, cobs_status,
                 crc_status, port_rx, port_tx, sent_packet, sent_payload, corruptions>>

\* the environment: the bytes written to the Stream reach its read side unchanged
Deliver ==
  /\ port_tx # <<>>
  /\ port_rx' = port_rx \o port_tx
  /\ port_tx' = <<>>
  /\ UNCHANGED <<Fixed, allow_start_byte_errors, transmission_buffer, reception_buffer,
                 transfer_status, cobs_status, crc_status, calls, last, sent_packet,
                 sent_payload, corruptions>>

\* the environment: noise flips one bit of a byte waiting on the read side
Corrupt ==
  /\ corruptions < MaxCorruptions
  /\ \E i \in 1..Len(port_rx), mask \in NoiseMasks :
       port_rx' = [port_rx EXCEPT ![i] = Xor(port_rx[i], mask)]
  /\ corruptions' = corruptions + 1
  /\ UNCHANGED <<Fixed, allow_start_byte_errors, transmission_buffer, reception_buffer,
                 transfer_status, cobs_status, crc_status, port_tx, calls, last, sent_packet,
                 sent_payload>>

Next ==
  \/ CallWriteData
  \/ CallReadData
  \/ CallSendData
  \/ CallReceiveData
  \/ CallAvailable
  \/ CallResetTransmissionBuffer
  \/ CallResetReceptionBuffer
  \/ CallCopyTxBufferPayloadToRxBuffer
  \/ CallSetAllowStartByteErrors
  \/ Deliver
  \/ Corrupt

Spec == Init /\ [][Next]_vars

(***************************************************************************)
(* Claims about the TransportLayer                                         *)
(***************************************************************************)
\* this step is a call of the method op
Did(op) == calls' = calls + 1 /\ last'.op = op

\* this step is a ReceiveData call that finds on the stream exactly the bytes the last
\* successful SendData wrote
ReceivesSentPacket ==
  /\ Did("ReceiveData")
  /\ sent_packet # <<>>
  /\ port_rx = sent_packet

\* what ParsePacket makes of the stream when ReceiveData is called in this state
ParsedNow ==
  ParsePacket(port_rx, ResetBuffer(reception_buffer), crc_processor, kDelimiterByte,
              allow_start_byte_errors, transfer_status)

\* the checksum of the reception buffer from the overhead byte through the last CRC byte
ReceiverChecksum(buffer, packet_size) ==
  CalculatePacketCRCChecksum(crc_processor, buffer, kOverheadByteIndex, packet_size).ret

\* C1: when the bytes SendData wrote for a staged payload P reach the receiver unchanged,
\* ReceiveData returns true, the received payload size is |P| and ReadData returns P.
C1_RoundTrip ==
  [][ReceivesSentPacket =>
        /\ last'.ok
        /\ reception_buffer'[kPayloadSizeIndex] = Len(sent_payload)
        /\ ReadData(reception_buffer', 0, Len(sent_payload)).object = sent_payload]_vars

\* C5: under every CRC parameter triple, the checksum the receiver computes over an intact
\* packet, overhead byte through last CRC byte, is 0 and ReceiveData does not end with
\* kCRCCheckFailed.
C5_IntactPacketChecksumIsZero ==
  [][ReceivesSentPacket =>
        /\ ReceiverChecksum([i \in 0..(Len(sent_packet) - 1) |-> sent_packet[i + 1]],
                            Len(sent_packet) - kOverheadByteIndex) = 0
        /\ transfer_status' # kCRCCheckFailed]_vars

\* C6: when a packet passes parsing and the checksum over overhead byte through last CRC
\* byte is not 0, ReceiveData returns false with transfer_status kCRCCheckFailed, and the
\* COBS decoder has not run: the reception buffer is as ParsePacket left it and
\* cobs_status is unchanged.
C6_CrcMismatchRejectedBeforeDecoding ==
  [][(/\ Did("ReceiveData")
      /\ Available(port_rx, crc_processor)
      /\ ParsedNow.status = kPacketParsed
      /\ ReceiverChecksum(ParsedNow.buf, ParsedNow.ret) # 0) =>
        /\ ~last'.ok
        /\ transfer_status' = kCRCCheckFailed
        /\ reception_buffer' = ParsedNow.buf
        /\ cobs_status' = cobs_status]_vars

\* C6 witness: a packet that was sent with a zero final XOR value and then corrupted has
\* been rejected with kCRCCheckFailed
C6_Witness ==
  /\ last.op = "ReceiveData"
  /\ ~last.ok
  /\ transfer_status = kCRCCheckFailed
  /\ crc_processor.final_xor_value = 0
  /\ corruptions >= 1

\* C7: a ReadData call that succeeds (it returns a non-zero size and sets
\* kObjectReadFromBuffer) has start_index + requested_bytes within
\* kMaximumReceivedPayloadSize, in every reachable state.
C7_ReadStaysInPayloadRegion ==
  [][(Did("ReadData") /\ last'.ok /\ transfer_status' = kObjectReadFromBuffer) =>
        last'.start_index + last'.bytes <= kMaximumReceivedPayloadSize]_vars

\* C8: when start_index + provided_bytes <= kMaximumTransmittedPayloadSize, WriteData
\* copies the object to payload offsets [start_index, start_index + provided_bytes),
\* changes no other byte, sets payload_size to the larger of its previous value and
\* start_index + provided_bytes, sets kObjectWrittenToBuffer and returns
\* start_index + provided_bytes.
C8_WriteWithinPayloadRegion ==
  [][(/\ Did("WriteData")
      /\ last'.start_index + last'.bytes <= kMaximumTransmittedPayloadSize) =>
        /\ transmission_buffer' =
             [CopyInto(transmission_buffer, kPayloadStartIndex + last'.start_index, last'.object)
                EXCEPT ![kPayloadSizeIndex] =
                  Max(transmission_buffer[kPayloadSizeIndex], last'.start_index + last'.bytes)]
        /\ transfer_status' = kObjectWrittenToBuffer
        /\ last'.ret = last'.start_index + last'.bytes]_vars

\* C8 witness: a write of at least one byte succeeded and ended before the payload size
\* staged by an earlier write
C8_Witness ==
  /\ last.op = "WriteData"
  /\ last.bytes >= 1
  /\ last.ret = last.start_index + last.bytes
  /\ transfer_status = kObjectWrittenToBuffer
  /\ transmission_buffer[kPayloadSizeIndex] > last.ret

\* C9: for start_index and provided_bytes in 0..65535 whose sum exceeds
\* kMaximumTransmittedPayloadSize, WriteData returns 0, sets kWriteObjectBufferError and
\* leaves the whole transmission buffer unchanged.
C9_OversizedWriteRejected ==
  [][(/\ Did("WriteData")
      /\ last'.start_index + last'.bytes > kMaximumTransmittedPayloadSize) =>
        /\ last'.ret = 0
        /\ transfer_status' = kWriteObjectBufferError
        /\ transmission_buffer' = transmission_buffer]_vars

\* C10: no WriteData call, successful or failing, decreases the transmission payload size.
C10_PayloadSizeNeverDecreases ==
  [][Did("WriteData") =>
        transmission_buffer'[kPayloadSizeIndex] >= transmission_buffer[kPayloadSizeIndex]]_vars

\* C11: ReadData returns 0 with kReadObjectBufferError iff start_index + requested_bytes
\* exceeds the reception payload_size; otherwise it copies payload bytes
\* [start_index, start_index + requested_bytes) into the object, returns
\* start_index + requested_bytes and sets kObjectReadFromBuffer.  In both cases the
\* reception buffer is unchanged.
C11_ReadDataContract ==
  [][Did("ReadData") =>
        /\ (last'.start_index + last'.bytes > reception_buffer[kPayloadSizeIndex])
             <=> (last'.ret = 0 /\ transfer_status' = kReadObjectBufferError)
        /\ (last'.start_index + last'.bytes <= reception_buffer[kPayloadSizeIndex]) =>
             /\ last'.object = Slice(reception_buffer, kPayloadStartIndex + last'.start_index,
                                     last'.bytes)
             /\ last'.ret = last'.start_index + last'.bytes
             /\ transfer_status' = kObjectReadFromBuffer
        /\ reception_buffer' = reception_buffer]_vars

\* the packet the staged payload makes on the wire: start byte, payload_size, overhead
\* byte, encoded payload, delimiter, checksum of overhead..delimiter most significant
\* byte first
WirePacket ==
  LET n == transmission_buffer[kPayloadSizeIndex]
      encoded == EncodePayload(transmission_buffer, kDelimiterByte).buf
      checksum == CalculatePacketCRCChecksum(crc_processor, encoded, kOverheadByteIndex, n + 2).ret
  IN  <<kStartByte, n, encoded[kOverheadByteIndex]>>
        \o [k \in 1..n |-> encoded[kOverheadByteIndex + k]]
        \o <<kDelimiterByte>>
        \o [k \in 1..crc_processor.width |-> ChecksumByte(checksum, crc_processor.width, k - 1)]

\* C12: on success SendData writes to the stream, in one write and in this order, the
\* start byte, the payload_size byte, the overhead byte, the encoded payload, the
\* delimiter and the checksum most significant byte first; it sets kPacketSent and resets
\* the transmission payload_size and overhead to 0.
C12_SendDataWritesPacket ==
  [][(Did("SendData") /\ last'.ok) =>
        /\ port_tx' = port_tx \o WirePacket
        /\ transfer_status' = kPacketSent
        /\ transmission_buffer'[kPayloadSizeIndex] = 0
        /\ transmission_buffer'[kOverheadByteIndex] = 0]_vars

\* the number of bytes this step wrote to the stream
BytesWritten == Len(port_tx') - Len(port_tx)

\* C13 as stated: the length of a packet on the wire, start byte through last CRC byte,
\* is payload_size + 3 + crc_width.
C13_PacketLengthPlusThree ==
  [][(Did("SendData") /\ last'.ok) =>
        BytesWritten = transmission_buffer[kPayloadSizeIndex] + 3 + crc_processor.width]_vars

\* C13 amended: the length of a packet on the wire, start byte through last CRC byte, is
\* payload_size + 4 + crc_width: start byte, payload_size byte, overhead byte,
\* payload_size payload bytes, delimiter and crc_width checksum bytes.
C13_PacketLengthPlusFour ==
  [][(Did("SendData") /\ last'.ok) =>
        BytesWritten = transmission_buffer[kPayloadSizeIndex] + 4 + crc_processor.width]_vars

\* C13 witness: a packet with the largest payload and a two-byte checksum has been sent
C13_Witness ==
  /\ last.op = "SendData"
  /\ last.ok
  /\ Len(sent_payload) = kMaximumTransmittedPayloadSize
  /\ crc_processor.width = 2
  /\ port_tx = sent_packet
  /\ Len(sent_packet) = kMaximumTransmittedPayloadSize + 6

\* C14: SendData called while the transmission payload_size is 0 returns false, writes no
\* byte to the stream, leaves the transmission buffer unchanged and sets transfer_status
\* to kEncoderTooSmallPayloadSize.
C14_EmptySendRejected ==
  [][(Did("SendData") /\ transmission_buffer[kPayloadSizeIndex] = 0) =>
        /\ ~last'.ok
        /\ port_tx' = port_tx
        /\ transmission_buffer' = transmission_buffer
        /\ transfer_status' = kEncoderTooSmallPayloadSize]_vars

\* C14 witness: SendData has been refused on an empty transmission buffer right after a
\* packet was sent
C14_Witness ==
  /\ last.op = "SendData"
  /\ ~last.ok
  /\ transmission_buffer[kPayloadSizeIndex] = 0
  /\ transfer_status = kEncoderTooSmallPayloadSize
  /\ port_tx = sent_packet
  /\ sent_packet # <<>>

\* this step is an Available call that changes neither buffer, nor the stream, nor
\* transfer_status
AvailableChangesNothing ==
  UNCHANGED <<transmission_buffer, reception_buffer, port_rx, port_tx, transfer_status,
              cobs_status, crc_status>>

\* C15 as stated: Available() returns true iff the stream reports at least M + 2 + W + 1
\* bytes available, and it changes neither the buffers, the stream position nor
\* transfer_status.
C15_AvailableFromPlusOne ==
  [][Did("Available") =>
        /\ last'.ok <=> Len(port_rx) >= kMinimumPayloadSize + 2 + crc_processor.width + 1
        /\ AvailableChangesNothing]_vars

\* C15 amended: Available() returns true iff the stream reports at least M + 2 + W bytes
\* available (kMinimumPacketSize), and it changes neither the buffers, the stream
\* position nor transfer_status.
C15_AvailableFromMinimumPacketSize ==
  [][Did("Available") =>
        /\ last'.ok <=> Len(port_rx) >= kMinimumPayloadSize + 2 + crc_processor.width
        /\ AvailableChangesNothing]_vars

\* C15 witness: Available() has returned true with exactly M + 2 + W bytes on the stream
C15_Witness ==
  /\ last.op = "Available"
  /\ last.ok
  /\ Len(port_rx) = kMinimumPayloadSize + 2 + crc_processor.width

ReceivedAfterReset ==
  ReceiveData(port_rx, ResetBuffer(reception_buffer), crc_processor, kDelimiterByte,
              allow_start_byte_errors, transfer_status, cobs_status, crc_status).buf

\* this step ends before ParsePacket has stored a byte in the reception buffer
StoredNothing ==
  transfer_status' \in {kNoBytesToParseFromBuffer, kPacketStartByteNotFound,
                        kPayloadSizeByteNotFound}

\* the reception buffer after this step is the one a reset followed by the parse leaves:
\* no payload_size or overhead value of an earlier call survives
ResetBeforeParsing ==
  /\ reception_buffer' = ReceivedAfterReset
  /\ StoredNothing => /\ reception_buffer'[kPayloadSizeIndex] = 0
                      /\ reception_buffer'[kOverheadByteIndex] = 0
  /\ transfer_status' = kInvalidPayloadSize => reception_buffer'[kOverheadByteIndex] = 0

StartByteAt == {i \in 1..Len(port_rx) : port_rx[i] = kStartByte}
FirstStartByte == CHOOSE i \in StartByteAt : \A j \in StartByteAt : i <= j

\* the bytes of the stream behind position k
StreamBehind(k) == SubSeq(port_rx, k + 1, Len(port_rx))

\* C18: ParsePacket reads and discards stream bytes until one equals the start byte; if
\* the available bytes run out first, ReceiveData returns false having consumed all of
\* them, with kNoBytesToParseFromBuffer when allow_start_byte_errors is false and
\* kPacketStartByteNotFound when it is true.
C18_StartByteSearch ==
  [][(Did("ReceiveData") /\ Available(port_rx, crc_processor)) =>
        /\ StartByteAt = {} =>
             /\ ~last'.ok
             /\ port_rx' = <<>>
             /\ transfer_status' = IF allow_start_byte_errors THEN kPacketStartByteNotFound
                                   ELSE kNoBytesToParseFromBuffer
        /\ StartByteAt # {} =>
             /\ \E k \in FirstStartByte..Len(port_rx) : port_rx' = StreamBehind(k)
             /\ transfer_status' \notin {kPacketStartByteNotFound, kNoBytesToParseFromBuffer}]_vars

\* C18 witness: with allow_start_byte_errors set, ReceiveData has consumed a packet whose
\* start byte was corrupted and reported kPacketStartByteNotFound
C18_Witness ==
  /\ last.op = "ReceiveData"
  /\ ~last.ok
  /\ allow_start_byte_errors
  /\ transfer_status = kPacketStartByteNotFound
  /\ corruptions = 1
  /\ sent_packet # <<>>
  /\ port_rx = <<>>

\* the stream holds a byte behind its first start byte: the payload_size byte
HasSizeByte == StartByteAt # {} /\ FirstStartByte < Len(port_rx)
SizeByte == port_rx[FirstStartByte + 1]

\* the statuses of a ReceiveData call that ended before the body of the packet was read
BeforeBodyStatuses ==
  {kNoBytesToParseFromBuffer, kPacketStartByteNotFound, kPayloadSizeByteNotFound,
   kInvalidPayloadSize}

\* C19: the byte behind the start byte is taken as the payload size: ReceiveData goes on
\* to body reception iff kMinimumPayloadSize <= size <= kMaximumReceivedPayloadSize, and
\* otherwise returns false with kInvalidPayloadSize without reading any further byte.
C19_PayloadSizeValidation ==
  [][(Did("ReceiveData") /\ Available(port_rx, crc_processor) /\ HasSizeByte) =>
        /\ reception_buffer'[kPayloadSizeIndex] = SizeByte
        /\ (SizeByte < kMinimumPayloadSize \/ SizeByte > kMaximumReceivedPayloadSize) =>
             /\ ~last'.ok
             /\ transfer_status' = kInvalidPayloadSize
             /\ port_rx' = StreamBehind(FirstStartByte + 1)
        /\ (SizeByte >= kMinimumPayloadSize /\ SizeByte <= kMaximumReceivedPayloadSize) =>
             /\ transfer_status' \notin BeforeBodyStatuses
             /\ \/ Len(port_rx') < Len(StreamBehind(FirstStartByte + 1))
                \/ transfer_status' = kPacketTimeoutError]_vars

\* C19 witness: ReceiveData has rejected a packet whose size byte noise had raised above
\* kMaximumReceivedPayloadSize, and the bytes behind the size byte are still on the stream
C19_Witness ==
  /\ last.op = "ReceiveData"
  /\ ~last.ok
  /\ transfer_status = kInvalidPayloadSize
  /\ reception_buffer[kPayloadSizeIndex] > kMaximumReceivedPayloadSize
  /\ corruptions = 1
  /\ Len(port_rx) = Len(sent_packet) - 2

\* the stream position of the last of the SizeByte + 2 body bytes (overhead, encoded
\* payload, delimiter)
LastBodyPosition == FirstStartByte + 1 + SizeByte + 2

\* the positions of the body bytes on the stream that hold the delimiter, and the first
\* of them
BodyDelimiterAt ==
  {p \in (FirstStartByte + 2)..LastBodyPosition : p <= Len(port_rx) /\ port_rx[p] = kDelimiterByte}
FirstBodyDelimiter == CHOOSE p \in BodyDelimiterAt : \A q \in BodyDelimiterAt : p <= q

\* C20: while reading the size + 2 body bytes ParsePacket stops at the first byte equal
\* to the delimiter: if that byte is not the last body byte ReceiveData fails with
\* kDelimiterFoundTooEarlyError; if all size + 2 bytes are read and none equals the
\* delimiter it fails with kDelimiterNotFoundError; only a delimiter exactly at the last
\* body position leads to reading the CRC.  Both errors are raised before any CRC check.
C20_DelimiterPosition ==
  [][(/\ Did("ReceiveData")
      /\ Available(port_rx, crc_processor)
      /\ HasSizeByte
      /\ SizeByte >= kMinimumPayloadSize
      /\ SizeByte <= kMaximumReceivedPayloadSize) =>
        /\ (BodyDelimiterAt # {} /\ FirstBodyDelimiter < LastBodyPosition) =>
             /\ ~last'.ok
             /\ transfer_status' = kDelimiterFoundTooEarlyError
             /\ port_rx' = StreamBehind(FirstBodyDelimiter)
             /\ crc_status' = crc_status
        /\ (BodyDelimiterAt = {} /\ Len(port_rx) >= LastBodyPosition) =>
             /\ ~last'.ok
             /\ transfer_status' = kDelimiterNotFoundError
             /\ port_rx' = StreamBehind(LastBodyPosition)
             /\ crc_status' = crc_status
        /\ (BodyDelimiterAt # {} /\ FirstBodyDelimiter = LastBodyPosition) =>
             /\ transfer_status' \notin {kDelimiterFoundTooEarlyError, kDelimiterNotFoundError,
                                         kPacketTimeoutError}
             /\ \/ transfer_status' = kPostambleTimeoutError
                \/ port_rx' = StreamBehind(LastBodyPosition + crc_processor.width)
        /\ transfer_status' \in {kDelimiterFoundTooEarlyError, kDelimiterNotFoundError} =>
             crc_status' = crc_status]_vars

\* C20 witness: ReceiveData has read all body bytes of a packet whose delimiter noise had
\* changed and reported kDelimiterNotFoundError, leaving the CRC bytes on the stream
C20_Witness ==
  /\ last.op = "ReceiveData"
  /\ ~last.ok
  /\ transfer_status = kDelimiterNotFoundError
  /\ corruptions = 1
  /\ Len(port_rx) = crc_processor.width

(***************************************************************************)
(* SpecTimed: a TransportLayer whose Stream delivers its bytes over time.  *)
(* ReceiveData runs at the grain of the loops of ParsePacket: one step is  *)
(* one pass through a loop, or leaving a loop and the checks behind it.    *)
(* The processor is fast against the clock: time only moves while a loop   *)
(* has nothing to read.                                                    *)
(***************************************************************************)
\* the template argument kTimeout, in ticks of the clock
kTimeout == 2
\* TransportLayer calls made in SpecTimed
MaxTimedCalls == 3

Min(a, b) == IF a <= b THEN a ELSE b

\* a variant of the loops' timeout test that never reports a timeout
NeverTimedOut(timeout_timer) == FALSE

\* the timeout test of the second, third and fourth loop of ParsePacket: the loops run
\* while (timeout_timer < kTimeout)
TimedOut(timeout_timer) == timeout_timer >= kTimeout

\* a variant of the timer reset that lets the timer run on after a byte was read
RunningTimer(timeout_timer) == timeout_timer

\* timeout_timer after a byte was read in the third or the fourth loop
RestartedTimer(timeout_timer) == 0

\* a variant of the checks behind the third loop that looks for the delimiter first
AfterPacketLoopDelimiterFirst(timeout_timer, delimiter_found, bytes_read, remaining_size) ==
  IF ~delimiter_found THEN kDelimiterNotFoundError
  ELSE IF TimedOut(timeout_timer) THEN kPacketTimeoutError
  ELSE IF bytes_read # remaining_size THEN kDelimiterFoundTooEarlyError
  ELSE kPayloadSizeByteFound

\* a variant of the checks behind the third loop that lets a delimiter found before
\* the end of the body pass
AfterPacketLoopAcceptingEarlyDelimiter(timeout_timer, delimiter_found, bytes_read, remaining_size) ==
  IF TimedOut(timeout_timer) THEN kPacketTimeoutError
  ELSE IF ~delimiter_found THEN kDelimiterNotFoundError
  ELSE kPayloadSizeByteFound

\* transfer_status behind the third loop of ParsePacket: an error, or unchanged
\* (kPayloadSizeByteFound) when the fourth loop is entered
AfterPacketLoop(timeout_timer, delimiter_found, bytes_read, remaining_size) ==
  IF TimedOut(timeout_timer) THEN kPacketTimeoutError
  ELSE IF ~delimiter_found THEN kDelimiterNotFoundError
  ELSE IF bytes_read # remaining_size THEN kDelimiterFoundTooEarlyError
  ELSE kPayloadSizeByteFound

\* the transmission buffer after construction
EmptyTransmissionBuffer(crc) ==
  [i \in 0..(kTransmissionBufferSize(crc) - 1) |-> IF i = 0 THEN kStartByte ELSE 0]

\* transmission buffers the caller can have staged: nothing written, every payload of
\* ObjectBytes that fits, and a payload whose overhead byte a WriteData at start_index
\* 65535 has overwritten
StagedBuffers(crc) ==
  {EmptyTransmissionBuffer(crc)}
    \cup {WriteData(EmptyTransmissionBuffer(crc), object, 0, Len(object)).buf :
            object \in UNION {[1..n -> ObjectBytes] : n \in 1..kMaximumTransmittedPayloadSize}}
    \cup {WriteData(WriteData(EmptyTransmissionBuffer(crc), <<1>>, 0, 1).buf, <<1>>, 65535, 1).buf}

\* bytes of the packets a peer with a faulty encoder sends
ForgedOverheads == {0, 2, 3}
ForgedBytes == {0, 2}

\* such a packet: a start byte, a payload_size, the body (overhead byte, size bytes,
\* delimiter) and the checksum of the body
ForgedPacket(crc, delimiter, size, overhead, body) ==
  Only({Slice(AddCRCChecksumToBuffer(crc, buffer, size + kOverheadByteIndex + 2,
                CalculatePacketCRCChecksum(crc, buffer, kOverheadByteIndex, size + 2).ret).buf,
              0, size + kOverheadByteIndex + 2 + kPostambleSize(crc)) :
          buffer \in {[i \in 0..(size + kOverheadByteIndex + 2 + kPostambleSize(crc) - 1) |->
                         IF i = 0 THEN kStartByte
                         ELSE IF i = kPayloadSizeIndex THEN size
                         ELSE IF i = kOverheadByteIndex THEN overhead
                         ELSE IF i <= kOverheadByteIndex + size THEN body[i - kOverheadByteIndex]
                         ELSE delimiter]}})

\* n bytes of noise without a start byte
Noise(n) == [i \in 1..n |-> 0]

\* what is on its way to the receiver at the start when the caller goes on to send:
\* nothing, or noise one byte short of kMinimumPacketSize
StreamsBeforeSending(crc) == {<<>>, Noise(kMinimumPacketSize(crc) - 1)}

\* what is on its way to the receiver at the start when the caller has nothing to send:
\* noise of kMinimumPacketSize bytes, or a forged packet
StreamsOfPeer(crc, delimiter) ==
  {Noise(kMinimumPacketSize(crc))}
    \cup {ForgedPacket(crc, delimiter, Len(body), overhead, body) :
            overhead \in ForgedOverheads,
            body \in UNION {[1..n -> ForgedBytes] : n \in 1..kMaximumReceivedPayloadSize}}

InitTimed ==
  /\ \E configuration \in Configurations :
       /\ kDelimiterByte = configuration[1]
       /\ crc_processor = configuration[2]
  /\ allow_start_byte_errors \in BOOLEAN
  /\ \/ /\ in_flight \in StreamsBeforeSending(crc_processor)
        /\ transmission_buffer \in StagedBuffers(crc_processor)
     \/ /\ in_flight \in StreamsOfPeer(crc_processor, kDelimiterByte)
        /\ transmission_buffer = EmptyTransmissionBuffer(crc_processor)
  /\ reception_buffer = [i \in 0..(kReceptionBufferSize(crc_processor) - 1) |-> 0]
  /\ transfer_status = kStandby
  /\ cobs_status = kCOBSStandby
  /\ crc_status = kCRCStandby
  /\ port_rx = <<>>
  /\ port_tx = <<>>
  /\ calls = 0
  /\ last = NoCall
  /\ sent_packet = <<>>
  /\ sent_payload = <<>>
  /\ corruptions = 0
  /\ timing = IdleTiming
  /\ parser = IdleParser
  /\ payload_buffer = <<>>
  /\ delimiter_byte_value = 0
  /\ cobs_calls = <<>>
  /\ decoder = IdleDecoder
  /\ crc_buffer = <<>>
  /\ crc_calls = <<>>

\* what a step of ReceiveData leaves alone
BesideReceiveData ==
  <<Constructed, allow_start_byte_errors, transmission_buffer, port_tx, in_flight,
    sent_packet, sent_payload, corruptions>>

\* ReceiveData returns
Return(ok) ==
  /\ parser' = IdleParser
  /\ Called("ReceiveData", 0, 0, <<>>, 0, ok)

\* SendData, called while no ReceiveData is running
TimedSendData ==
  /\ parser.pc = "idle"
  /\ calls < MaxTimedCalls
  /\ CallSendData

\* the Stream hands the bytes written to the line
Transmit ==
  /\ port_tx # <<>>
  /\ in_flight' = in_flight \o port_tx
  /\ port_tx' = <<>>
  /\ UNCHANGED <<Constructed, allow_start_byte_errors, transmission_buffer, reception_buffer,
                 transfer_status, cobs_status, crc_status, port_rx, calls, last, sent_packet,
                 sent_payload, corruptions, timing, parser>>

\* the next byte reaches the read side of the Stream
Arrive ==
  /\ in_flight # <<>>
  /\ port_rx' = Append(port_rx, Head(in_flight))
  /\ in_flight' = Tail(in_flight)
  /\ timing' = [timing EXCEPT !.gap = 0]
  /\ UNCHANGED <<Constructed, allow_start_byte_errors, transmission_buffer, reception_buffer,
                 transfer_status, cobs_status, crc_status, port_tx, calls, last, sent_packet,
                 sent_payload, corruptions, parser>>

\* ReceiveData is called: without kMinimumPacketSize bytes to read it returns at once,
\* otherwise it resets the reception buffer and enters ParsePacket
BeginReceiveData ==
  /\ parser.pc = "idle"
  /\ calls < MaxTimedCalls
  /\ IF ~Available(port_rx, crc_processor)
     THEN /\ transfer_status' = kNoBytesToParseFromBuffer
          /\ Called("ReceiveData", 0, 0, <<>>, 0, FALSE)
          /\ UNCHANGED <<reception_buffer, parser, timing>>
     ELSE /\ reception_buffer' = ResetBuffer(reception_buffer)
          /\ parser' = [IdleParser EXCEPT !.pc = "start", !.bytes_read = kOverheadByteIndex]
          /\ timing' = [gap |-> 0, stalled |-> FALSE, elapsed |-> 0,
                        intact |-> sent_packet # <<>> /\ port_rx \o in_flight = sent_packet]
          /\ UNCHANGED <<transfer_status, calls, last>>
  /\ UNCHANGED <<BesideReceiveData, cobs_status, crc_status, port_rx>>

\* one pass through the first loop of ParsePacket, or leaving it when nothing is
\* available
SearchStartByte ==
  /\ parser.pc = "start"
  /\ IF port_rx # <<>>
     THEN /\ port_rx' = Tail(port_rx)
          /\ IF Head(port_rx) = kStartByte
             THEN /\ transfer_status' = kPacketStartByteFound
                  /\ parser' = [parser EXCEPT !.pc = "size", !.timeout_timer = 0]
             ELSE UNCHANGED <<transfer_status, parser>>
          /\ UNCHANGED <<calls, last>>
     ELSE /\ IF transfer_status = kPacketStartByteFound
             THEN /\ parser' = [parser EXCEPT !.pc = "size", !.timeout_timer = 0]
                  /\ UNCHANGED <<transfer_status, calls, last>>
             ELSE /\ transfer_status' = IF allow_start_byte_errors
                                        THEN kPacketStartByteNotFound
                                        ELSE kNoBytesToParseFromBuffer
                  /\ Return(FALSE)
          /\ UNCHANGED port_rx
  /\ UNCHANGED <<BesideReceiveData, reception_buffer, cobs_status, crc_status, timing>>

\* the second loop of ParsePacket: it reads the payload_size byte, or leaves on a timeout
ReadPayloadSize ==
  /\ parser.pc = "size"
  /\ IF TimedOut(parser.timeout_timer)
     THEN /\ transfer_status' = kPayloadSizeByteNotFound
          /\ Return(FALSE)
          /\ UNCHANGED <<reception_buffer, port_rx>>
     ELSE /\ port_rx # <<>>
          /\ port_rx' = Tail(port_rx)
          /\ reception_buffer' = [reception_buffer EXCEPT ![kPayloadSizeIndex] = Head(port_rx)]
          /\ IF Head(port_rx) < kMinimumPayloadSize \/ Head(port_rx) > kMaximumReceivedPayloadSize
             THEN /\ transfer_status' = kInvalidPayloadSize
                  /\ Return(FALSE)
             ELSE /\ transfer_status' = kPayloadSizeByteFound
                  /\ parser' = [parser EXCEPT !.pc = "body", !.timeout_timer = 0,
                                              !.remaining_size = Head(port_rx) + kOverheadByteIndex + 2]
                  /\ UNCHANGED <<calls, last>>
  /\ UNCHANGED <<BesideReceiveData, cobs_status, crc_status, timing>>

\* the third loop is still running
InPacketLoop ==
  /\ parser.pc = "body"
  /\ ~parser.delimiter_found
  /\ ~TimedOut(parser.timeout_timer)
  /\ parser.bytes_read < parser.remaining_size

\* one pass through the third loop of ParsePacket that reads a byte
ReadPacketByte ==
  /\ InPacketLoop
  /\ port_rx # <<>>
  /\ port_rx' = Tail(port_rx)
  /\ reception_buffer' = [reception_buffer EXCEPT ![parser.bytes_read] = Head(port_rx)]
  /\ parser' = [parser EXCEPT !.bytes_read = @ + 1,
                              !.timeout_timer = RestartedTimer(@),
                              !.delimiter_found = Head(port_rx) = kDelimiterByte]
  /\ UNCHANGED <<BesideReceiveData, transfer_status, cobs_status, crc_status, calls, last,
                 timing>>

\* the third loop is left and the checks behind it are made
LeavePacketLoop ==
  /\ parser.pc = "body"
  /\ ~InPacketLoop
  /\ \E status \in {AfterPacketLoop(parser.timeout_timer, parser.delimiter_found,
                                    parser.bytes_read, parser.remaining_size)} :
       IF status # kPayloadSizeByteFound
       THEN /\ transfer_status' = status
            /\ Return(FALSE)
       ELSE /\ parser' = [parser EXCEPT !.pc = "postamble", !.timeout_timer = 0]
            /\ UNCHANGED <<transfer_status, calls, last>>
  /\ UNCHANGED <<BesideReceiveData, reception_buffer, cobs_status, crc_status, port_rx, timing>>

\* the fourth loop is still running
InPostambleLoop ==
  /\ parser.pc = "postamble"
  /\ ~TimedOut(parser.timeout_timer)
  /\ parser.bytes_read < parser.remaining_size + kPostambleSize(crc_processor)

\* one pass through the fourth loop of ParsePacket that reads a byte
ReadPostambleByte ==
  /\ InPostambleLoop
  /\ port_rx # <<>>
  /\ port_rx' = Tail(port_rx)
  /\ reception_buffer' = [reception_buffer EXCEPT ![parser.bytes_read] = Head(port_rx)]
  /\ parser' = [parser EXCEPT !.bytes_read = @ + 1, !.timeout_timer = RestartedTimer(@)]
  /\ UNCHANGED <<BesideReceiveData, transfer_status, cobs_status, crc_status, calls, last,
                 timing>>

\* the fourth loop is left: on a timeout ReceiveData fails, otherwise the packet is
\* parsed and ReceiveData validates it and returns
LeavePostambleLoop ==
  /\ parser.pc = "postamble"
  /\ ~InPostambleLoop
  /\ IF TimedOut(parser.timeout_timer)
     THEN /\ transfer_status' = kPostambleTimeoutError
          /\ Return(FALSE)
          /\ UNCHANGED <<reception_buffer, cobs_status, crc_status>>
     ELSE \E valid \in {ValidatePacket(reception_buffer, parser.bytes_read - kOverheadByteIndex,
                                       crc_processor, kDelimiterByte, cobs_status)} :
            /\ reception_buffer' = valid.buf
            /\ cobs_status' = valid.cobs
            /\ crc_status' = valid.crc
            /\ transfer_status' = IF valid.ret = 0 THEN valid.status ELSE kPacketReceived
            /\ Return(valid.ret # 0)
  /\ UNCHANGED <<BesideReceiveData, port_rx, timing>>

\* a loop of ParsePacket has nothing to read and has not timed out
Waiting ==
  /\ port_rx = <<>>
  /\ \/ parser.pc = "size" /\ ~TimedOut(parser.timeout_timer)
     \/ InPacketLoop
     \/ InPostambleLoop

\* the clock advances by one tick while a loop waits
Tick ==
  /\ Waiting
  /\ parser' = [parser EXCEPT !.timeout_timer = Min(@ + 1, kTimeout + 1)]
  /\ timing' = [timing EXCEPT !.gap = Min(@ + 1, kTimeout),
                              !.stalled = @ \/ timing.gap + 1 >= kTimeout,
                              !.elapsed = Min(@ + 1, kTimeout + 1)]
  /\ UNCHANGED <<Constructed, allow_start_byte_errors, transmission_buffer, reception_buffer,
                 transfer_status, cobs_status, crc_status, port_rx, port_tx, in_flight, calls,
                 last, sent_packet, sent_payload, corruptions>>

\* the steps of a running ReceiveData
ParserStep ==
  \/ SearchStartByte
  \/ ReadPayloadSize
  \/ ReadPacketByte
  \/ LeavePacketLoop
  \/ ReadPostambleByte
  \/ LeavePostambleLoop

NextTimed ==
  \/ TimedSendData
  \/ Transmit
  \/ Arrive
  \/ BeginReceiveData
  \/ ParserStep
  \/ Tick

SpecTimed == InitTimed /\ [][NextTimed]_vars

\* the processor keeps executing a running call and the clock keeps advancing
SpecTimedLive == SpecTimed /\ WF_vars(ParserStep) /\ WF_vars(Tick)

(***************************************************************************)
(* Claims about the timing of ReceiveData                                  *)
(***************************************************************************)
\* the running ReceiveData takes a step
ParserSteps == parser.pc # "idle" /\ parser' # parser

\* the timeout status of the stage of ParsePacket at position pc
StallStatus(pc) ==
  IF pc = "size" THEN kPayloadSizeByteNotFound
  ELSE IF pc = "body" THEN kPacketTimeoutError
  ELSE kPostambleTimeoutError

\* C21: once the start byte is read, when the stream has let a loop of ParsePacket wait
\* for kTimeout or longer, the next thing ReceiveData does is return false with the
\* status of the stage that waited: kPayloadSizeByteNotFound for the size byte,
\* kPacketTimeoutError for a body byte, kPostambleTimeoutError for a CRC byte.
C21_StallStatus ==
  [][(timing.stalled /\ ParserSteps) =>
        /\ parser.pc \in {"size", "body", "postamble"}
        /\ Did("ReceiveData")
        /\ parser'.pc = "idle"
        /\ ~last'.ok
        /\ transfer_status' = StallStatus(parser.pc)]_vars

\* C21 witness: ReceiveData has returned kPostambleTimeoutError after the CRC bytes of a
\* packet it had read up to the delimiter stayed away for kTimeout
C21_Witness ==
  /\ last.op = "ReceiveData"
  /\ ~last.ok
  /\ parser.pc = "idle"
  /\ timing.stalled
  /\ transfer_status = kPostambleTimeoutError
  /\ reception_buffer[kPayloadSizeIndex] >= kMinimumPayloadSize
  /\ in_flight # <<>>

(***************************************************************************)
(* Claims about the TransportLayer, continued                              *)
(***************************************************************************)
\* the bytes of the stream from its first start byte on, laid out as a reception buffer
WireBuffer ==
  [i \in DOMAIN reception_buffer |->
     IF i = 0 THEN reception_buffer[0]
     ELSE IF FirstStartByte + i <= Len(port_rx) THEN port_rx[FirstStartByte + i]
     ELSE 0]

\* C22: ReceiveData returns true iff transfer_status on return is kPacketReceived; then
\* the overhead byte of the reception buffer is 0, its payload_size is the size byte that
\* followed the start byte on the wire, and its payload region holds what COBS decoding
\* makes of the bytes received.
C22_ReceivedPayloadIsLive ==
  [][Did("ReceiveData") =>
        /\ last'.ok <=> transfer_status' = kPacketReceived
        /\ last'.ok =>
             /\ HasSizeByte
             /\ reception_buffer'[kOverheadByteIndex] = 0
             /\ reception_buffer'[kPayloadSizeIndex] = SizeByte
             /\ DecodePayload(WireBuffer, kDelimiterByte).ret = SizeByte
             /\ PayloadOf(reception_buffer') = PayloadOf(DecodePayload(WireBuffer, kDelimiterByte).buf)]_vars

\* C22 witness: ReceiveData has returned true with a payload of the largest size whose
\* first byte is not 0
C22_Witness ==
  /\ last.op = "ReceiveData"
  /\ last.ok
  /\ transfer_status = kPacketReceived
  /\ reception_buffer[kOverheadByteIndex] = 0
  /\ reception_buffer[kPayloadSizeIndex] = kMaximumReceivedPayloadSize
  /\ reception_buffer[kPayloadStartIndex] # 0

(***************************************************************************)
(* Claims about the COBSProcessor, continued                               *)
(***************************************************************************)
\* the buffer as call k of cobs_calls left it
BufferAfter(k) == IF k = Len(cobs_calls) THEN payload_buffer ELSE cobs_calls[k + 1].before

\* the status EncodePayload must give a buffer: the first precondition, in the order
\* size 0, size 255, buffer smaller than size + 4, overhead byte not 0, that fails
ExpectedEncoderStatus(buf) ==
  IF buf[kPayloadSizeIndex] = 0 THEN kEncoderTooSmallPayloadSize
  ELSE IF buf[kPayloadSizeIndex] = 255 THEN kEncoderTooLargePayloadSize
  ELSE IF BufLen(buf) < buf[kPayloadSizeIndex] + 4 THEN kEncoderPacketLargerThanBuffer
  ELSE IF buf[kOverheadByteIndex] # 0 THEN kPayloadAlreadyEncoded
  ELSE kPayloadEncoded

\* C23: EncodePayload tests its preconditions in the order payload_size 0, payload_size
\* 255, buffer smaller than payload_size + 4, overhead byte not 0, and reports the first
\* that fails; it then returns 0 and leaves the buffer unchanged.
C23_EncoderPreconditionOrder ==
  \A k \in 1..Len(cobs_calls) :
    cobs_calls[k].op = "encode" =>
      /\ cobs_calls[k].status = ExpectedEncoderStatus(cobs_calls[k].before)
      /\ cobs_calls[k].status # kPayloadEncoded =>
           /\ cobs_calls[k].ret = 0
           /\ BufferAfter(k) = cobs_calls[k].before

\* C23 witness: a second EncodePayload on an encoded buffer that holds the delimiter has
\* returned kPayloadAlreadyEncoded and left the encoded buffer as it was
C23_Witness ==
  /\ Len(cobs_calls) = 2
  /\ cobs_calls[1].op = "encode"
  /\ cobs_calls[1].status = kPayloadEncoded
  /\ cobs_calls[1].before[kPayloadStartIndex] = delimiter_byte_value
  /\ cobs_calls[2].op = "encode"
  /\ cobs_calls[2].status = kPayloadAlreadyEncoded
  /\ payload_buffer = cobs_calls[2].before

\* the status DecodePayload must give a buffer that fails a precondition: the first, in
\* the order size 0, size 255, buffer smaller than size + 4, overhead byte 0, that
\* fails; kPayloadDecoded stands for a buffer that passes all four
ExpectedDecoderStatus(buf) ==
  IF buf[kPayloadSizeIndex] = 0 THEN kDecoderTooSmallPacketSize
  ELSE IF buf[kPayloadSizeIndex] = 255 THEN kDecoderTooLargePacketSize
  ELSE IF BufLen(buf) < buf[kPayloadSizeIndex] + 4 THEN kDecoderPacketLargerThanBuffer
  ELSE IF buf[kOverheadByteIndex] = 0 THEN kPacketAlreadyDecoded
  ELSE kPayloadDecoded

\* the statuses of the precondition checks of DecodePayload
DecoderPreconditionStatuses ==
  {kDecoderTooSmallPacketSize, kDecoderTooLargePacketSize, kDecoderPacketLargerThanBuffer,
   kPacketAlreadyDecoded}

\* C24: DecodePayload tests its preconditions in the order packet too small (size 0),
\* too large (size 255), buffer too small, overhead byte 0, before it follows the jump
\* chain, and reports the first that fails with 0 returned and the buffer unchanged; a
\* buffer of valid size whose overhead byte is 0 gets kPacketAlreadyDecoded whatever
\* else it holds.
C24_DecoderPreconditionOrder ==
  \A k \in 1..Len(cobs_calls) :
    cobs_calls[k].op = "decode" =>
      IF ExpectedDecoderStatus(cobs_calls[k].before) \in DecoderPreconditionStatuses
      THEN /\ cobs_calls[k].status = ExpectedDecoderStatus(cobs_calls[k].before)
           /\ cobs_calls[k].ret = 0
           /\ BufferAfter(k) = cobs_calls[k].before
      ELSE cobs_calls[k].status \notin DecoderPreconditionStatuses

\* C24 witness: DecodePayload with delimiter 0 has returned kPacketAlreadyDecoded for a
\* buffer whose overhead byte is 0, where a jump chain would have met a delimiter at the
\* overhead byte itself, and has left the buffer as it was
C24_Witness ==
  /\ Len(cobs_calls) = 1
  /\ cobs_calls[1].op = "decode"
  /\ delimiter_byte_value = 0
  /\ cobs_calls[1].before[kOverheadByteIndex] = 0
  /\ cobs_calls[1].before[kPayloadSizeIndex] = MaxCobsPayload
  /\ cobs_calls[1].before[kPayloadStartIndex] = 0
  /\ cobs_calls[1].status = kPacketAlreadyDecoded
  /\ payload_buffer = cobs_calls[1].before

\* C25: whenever DecodePayload gets past its size, buffer-size and overhead checks, the
\* overhead byte is 0 when it returns, with kPayloadDecoded, kDecoderUnableToFindDelimiter
\* or kDecoderDelimiterFoundTooEarly alike, so that a DecodePayload repeated at once
\* returns kPacketAlreadyDecoded.
C25_OverheadClearedByDecoding ==
  \A k \in 1..Len(cobs_calls) :
    (/\ cobs_calls[k].op = "decode"
     /\ ExpectedDecoderStatus(cobs_calls[k].before) = kPayloadDecoded) =>
      /\ cobs_calls[k].status \in
           {kPayloadDecoded, kDecoderUnableToFindDelimiter, kDecoderDelimiterFoundTooEarly}
      /\ BufferAfter(k)[kOverheadByteIndex] = 0
      /\ (k < Len(cobs_calls) /\ cobs_calls[k + 1].op = "decode") =>
           /\ cobs_calls[k + 1].status = kPacketAlreadyDecoded
           /\ cobs_calls[k + 1].ret = 0

\* C25 witness: a DecodePayload that failed with kDecoderUnableToFindDelimiter was
\* repeated and returned kPacketAlreadyDecoded
C25_Witness ==
  /\ Len(cobs_calls) = 2
  /\ cobs_calls[1].op = "decode"
  /\ cobs_calls[1].status = kDecoderUnableToFindDelimiter
  /\ cobs_calls[2].op = "decode"
  /\ cobs_calls[2].status = kPacketAlreadyDecoded
  /\ payload_buffer[kOverheadByteIndex] = 0

\* the index of the first byte behind index i of the payload region of buf that holds the
\* delimiter d, or the index of the appended delimiter when there is none
NextDelimiterIndex(buf, i, d) ==
  LET delimiter_index == kOverheadByteIndex + buf[kPayloadSizeIndex] + 1
      at == {j \in (i + 1)..(delimiter_index - 1) : buf[j] = d}
  IN  IF at = {} THEN delimiter_index ELSE CHOOSE j \in at : \A other \in at : j <= other

\* C29: for a buffer with payload_size in 1..254 and overhead byte 0 (and room for the
\* packet), EncodePayload
\* replaces every payload byte equal to the delimiter d by the distance to the next
\* payload byte that was d (or to the appended delimiter), leaves the other payload bytes
\* and the rest of the buffer as they were, sets the overhead byte to the distance to the
\* first payload byte that was d (or to the appended delimiter), writes d at index
\* overhead + 1 + payload_size, and returns payload_size + 2.
C29_EncoderOutput ==
  \A k \in 1..Len(cobs_calls) :
    (cobs_calls[k].op = "encode" /\ Encodable(cobs_calls[k].before)) =>
      LET before == cobs_calls[k].before
          after == BufferAfter(k)
          size == before[kPayloadSizeIndex]
      IN  /\ cobs_calls[k].status = kPayloadEncoded
          /\ cobs_calls[k].ret = size + 2
          /\ after[kOverheadByteIndex] =
               NextDelimiterIndex(before, kOverheadByteIndex, delimiter_byte_value) - kOverheadByteIndex
          /\ after[kOverheadByteIndex + 1 + size] = delimiter_byte_value
          /\ \A i \in kPayloadStartIndex..(kOverheadByteIndex + size) :
               after[i] = IF before[i] = delimiter_byte_value
                          THEN NextDelimiterIndex(before, i, delimiter_byte_value) - i
                          ELSE before[i]
          /\ \A i \in DOMAIN before :
               (i < kOverheadByteIndex \/ i > kOverheadByteIndex + 1 + size) => after[i] = before[i]

\* C29 witness: EncodePayload has encoded a payload of MaxCobsPayload bytes whose first
\* and last byte were the delimiter, over a byte behind the payload that was not
C29_Witness ==
  /\ Len(cobs_calls) = 1
  /\ cobs_calls[1].op = "encode"
  /\ cobs_calls[1].status = kPayloadEncoded
  /\ cobs_calls[1].before[kPayloadSizeIndex] = MaxCobsPayload
  /\ cobs_calls[1].before[kPayloadStartIndex] = delimiter_byte_value
  /\ cobs_calls[1].before[kPayloadStartIndex + 1] # delimiter_byte_value
  /\ cobs_calls[1].before[kOverheadByteIndex + MaxCobsPayload] = delimiter_byte_value
  /\ cobs_calls[1].before[kOverheadByteIndex + MaxCobsPayload + 1] # delimiter_byte_value
  /\ payload_buffer[kOverheadByteIndex] = 1
  /\ payload_buffer[kPayloadStartIndex] = MaxCobsPayload - 1

\* where the jump chain of buf ends: it starts at the index the overhead byte points to
\* and goes on from a byte that is not the delimiter d by the value of that byte.  The
\* chain is "early" or "exact" when it lands on a byte that holds d before or at index
\* overhead + payload_size + 1, "past" when it moves behind that index, and "stuck" when
\* it lands on a byte 0 that is not d and so never moves on
RECURSIVE ChainEnd(_, _, _)
ChainEnd(buf, index, d) ==
  LET delimiter_index == kOverheadByteIndex + buf[kPayloadSizeIndex] + 1
  IN  IF index > delimiter_index THEN "past"
      ELSE IF buf[index] = d THEN (IF index = delimiter_index THEN "exact" ELSE "early")
      ELSE IF buf[index] = 0 THEN "stuck"
      ELSE ChainEnd(buf, index + buf[index], d)

\* the end of the jump chain of buf from its overhead byte
JumpChain(buf, d) == ChainEnd(buf, kOverheadByteIndex + buf[kOverheadByteIndex], d)

\* C30: DecodePayload follows the jump chain from the overhead byte: if the chain lands
\* on a byte that holds the delimiter before index overhead + payload_size + 1 it
\* returns 0 with kDecoderDelimiterFoundTooEarly, if the chain moves past that index
\* without landing on a delimiter it returns 0 with kDecoderUnableToFindDelimiter, and it
\* returns payload_size with kPayloadDecoded only when the chain lands on a byte that
\* holds the delimiter exactly at that index.
C30_JumpChainVerdict ==
  \A k \in 1..Len(cobs_calls) :
    (/\ cobs_calls[k].op = "decode"
     /\ ExpectedDecoderStatus(cobs_calls[k].before) = kPayloadDecoded) =>
      LET chain == JumpChain(cobs_calls[k].before, delimiter_byte_value)
      IN  /\ chain = "early" =>
                cobs_calls[k].ret = 0 /\ cobs_calls[k].status = kDecoderDelimiterFoundTooEarly
          /\ chain = "past" =>
                cobs_calls[k].ret = 0 /\ cobs_calls[k].status = kDecoderUnableToFindDelimiter
          /\ chain = "exact" =>
                /\ cobs_calls[k].ret = cobs_calls[k].before[kPayloadSizeIndex]
                /\ cobs_calls[k].status = kPayloadDecoded
          /\ cobs_calls[k].status = kPayloadDecoded => chain = "exact"

\* the values of the enumerations kCOBSProcessorCodes, kCRCProcessorCodes and
\* kTransportLayerCodes
kCOBSProcessorCodes == kCOBSStandby..kPayloadDecoded
kCRCProcessorCodes == kCRCStandby..kCRCChecksumReadFromBuffer
kTransportLayerCodes == kStandby..kPostambleTimeoutError

\* this step is the end of a ReceiveData call that has read a whole packet, which
\* ValidatePacket now judges
ValidatesPacket ==
  /\ Did("ReceiveData")
  /\ parser.pc = "postamble"
  /\ ~TimedOut(parser.timeout_timer)

\* C26: when SendData or ReceiveData fails inside the COBS or the CRC codec, the call
\* returns false with transfer_status equal to the status code the codec set, a value of
\* kCOBSProcessorCodes or kCRCProcessorCodes, never a value of kTransportLayerCodes.
C26_CodecStatusPropagates ==
  [][/\ (Did("SendData") /\ ~last'.ok) =>
          /\ transfer_status' \in kCOBSProcessorCodes \cup kCRCProcessorCodes
          /\ transfer_status' \notin kTransportLayerCodes
          /\ transfer_status' \in kCOBSProcessorCodes =>
               /\ transfer_status' = EncodePayload(transmission_buffer, kDelimiterByte).status
               /\ transfer_status' = cobs_status'
          /\ transfer_status' \in kCRCProcessorCodes => transfer_status' = crc_status'
     /\ (Did("SendData") /\ EncodePayload(transmission_buffer, kDelimiterByte).ret = 0) =>
          ~last'.ok
     /\ (/\ ValidatesPacket
         /\ ReceiverChecksum(reception_buffer, parser.bytes_read - kOverheadByteIndex) = 0
         /\ DecodePayload(reception_buffer, kDelimiterByte).ret = 0) =>
          /\ ~last'.ok
          /\ transfer_status' = DecodePayload(reception_buffer, kDelimiterByte).status
          /\ transfer_status' = cobs_status'
          /\ transfer_status' \in kCOBSProcessorCodes
          /\ transfer_status' \notin kTransportLayerCodes
     /\ (Did("ReceiveData") /\ ~last'.ok /\ transfer_status' \notin kTransportLayerCodes) =>
          /\ ValidatesPacket
          /\ \/ transfer_status' \in kCOBSProcessorCodes /\ transfer_status' = cobs_status'
             \/ transfer_status' \in kCRCProcessorCodes /\ transfer_status' = crc_status']_vars

\* C26 witness: ReceiveData has returned false for a packet with a good checksum whose
\* jump chain misses the delimiter, with the decoder's kDecoderUnableToFindDelimiter as
\* transfer_status
C26_Witness ==
  /\ last.op = "ReceiveData"
  /\ ~last.ok
  /\ parser.pc = "idle"
  /\ crc_status = kCRCChecksumCalculated
  /\ cobs_status = kDecoderUnableToFindDelimiter
  /\ transfer_status = kDecoderUnableToFindDelimiter

\* the statuses of the three timeouts of ParsePacket
TimeoutStatuses == {kPayloadSizeByteNotFound, kPacketTimeoutError, kPostambleTimeoutError}

\* C27: every ReceiveData call terminates.  A loop of ParsePacket that waits for a byte
\* behind the start byte waits at most kTimeout, after which the call returns false with
\* a timeout status; the search for the start byte ends, and the call returns false, as
\* soon as the stream has no byte available; and a call that has begun always returns.
C27_ReceiveDataTerminates ==
  /\ [](parser.timeout_timer <= kTimeout)
  /\ [][(ParserSteps /\ parser.timeout_timer >= kTimeout) =>
          /\ Did("ReceiveData")
          /\ parser'.pc = "idle"
          /\ ~last'.ok
          /\ transfer_status' \in TimeoutStatuses]_vars
  /\ [][(ParserSteps /\ parser.pc = "start" /\ port_rx = <<>>) =>
          /\ Did("ReceiveData")
          /\ parser'.pc = "idle"
          /\ ~last'.ok
          /\ transfer_status' \in {kPacketStartByteNotFound, kNoBytesToParseFromBuffer}]_vars
  /\ (parser.pc # "idle") ~> (parser.pc = "idle")

\* C27 witness: ReceiveData has returned false with kPacketTimeoutError after waiting
\* kTimeout, and no longer, for a body byte
C27_Witness ==
  /\ last.op = "ReceiveData"
  /\ ~last.ok
  /\ parser.pc = "idle"
  /\ transfer_status = kPacketTimeoutError
  /\ timing.stalled
  /\ timing.elapsed = kTimeout

\* this step is the return of a ReceiveData call that went into ParsePacket with exactly
\* the bytes of the last packet sent on the stream and on the line, and whose loops never
\* waited kTimeout for a byte
ReturnsFromSlowPacket ==
  /\ Did("ReceiveData")
  /\ parser.pc # "idle"
  /\ timing.intact
  /\ ~timing.stalled

\* a packet whose bytes each arrive less than kTimeout after the one before never ends
\* in a timeout, however long it takes as a whole
SlowPacketNeverTimesOut ==
  [][ReturnsFromSlowPacket => transfer_status' \notin TimeoutStatuses]_vars

\* with delimiter 0 and a final XOR value of 0 such a packet is received
SlowPacketReceivedByDefault ==
  [][(ReturnsFromSlowPacket /\ kDelimiterByte = 0 /\ crc_processor.final_xor_value = 0) =>
        /\ last'.ok
        /\ transfer_status' = kPacketReceived
        /\ PayloadOf(reception_buffer') = sent_payload]_vars

\* C28: the inter-byte timer is restarted on every byte read in body and CRC reception,
\* so a well-formed packet whose consecutive bytes each arrive less than kTimeout apart is
\* received (ReceiveData returns true with kPacketReceived) even when the whole packet
\* takes longer than kTimeout to arrive.
C28_SlowPacketReceived ==
  [][ReturnsFromSlowPacket =>
        /\ last'.ok
        /\ transfer_status' = kPacketReceived]_vars

\* a packet that took longer than kTimeout as a whole, with less than kTimeout between
\* its bytes, has been received
SlowPacketWasReceived ==
  /\ last.op = "ReceiveData"
  /\ last.ok
  /\ transfer_status = kPacketReceived
  /\ timing.intact
  /\ ~timing.stalled
  /\ timing.elapsed > kTimeout
(***************************************************************************)
(* Claims about the COBSProcessor: the bytes the codec leaves alone        *)
(***************************************************************************)
\* the indices of buf outside the packet region: the start byte, the payload_size byte
\* and every byte behind the delimiter position kOverheadByteIndex + payload_size + 1
OutsidePacketRegion(buf) ==
  {i \in DOMAIN buf : \/ i = 0
                      \/ i = kPayloadSizeIndex
                      \/ i > kOverheadByteIndex + buf[kPayloadSizeIndex] + 1}

\* C31: EncodePayload and DecodePayload never modify the start byte (index 0), the
\* payload_size byte (index 1) or any byte behind the delimiter position, whatever the
\* buffer holds and whether the call succeeds or fails.
C31_CodecFrame ==
  \A k \in 1..Len(cobs_calls) :
    \A i \in OutsidePacketRegion(cobs_calls[k].before) :
      BufferAfter(k)[i] = cobs_calls[k].before[i]

\* C31 witness: a DecodePayload that failed after it had rewritten bytes of a packet
\* region with bytes behind it, and an EncodePayload that succeeded on such a buffer
C31_Witness ==
  /\ Len(cobs_calls) = 2
  /\ cobs_calls[1].op = "encode"
  /\ cobs_calls[1].status = kPayloadEncoded
  /\ cobs_calls[1].before # cobs_calls[2].before
  /\ cobs_calls[2].op = "decode"
  /\ cobs_calls[2].status \in {kDecoderUnableToFindDelimiter, kDecoderDelimiterFoundTooEarly}
  /\ \E i \in kPayloadStartIndex..(kOverheadByteIndex + payload_buffer[kPayloadSizeIndex] + 1) :
       payload_buffer[i] # cobs_calls[2].before[i]
  /\ kOverheadByteIndex + payload_buffer[kPayloadSizeIndex] + 1 < BufLen(payload_buffer) - 1
(***************************************************************************)
(* Claims about SendData through the public interface                      *)
(***************************************************************************)
\* the transmission buffer holds what EncodePayload accepts: a payload_size of 1..T and an
\* overhead byte 0
Staged(buffer) ==
  /\ buffer[kPayloadSizeIndex] \in 1..kMaximumTransmittedPayloadSize
  /\ buffer[kOverheadByteIndex] = 0

\* this step is a WriteData call whose start_index + provided_bytes exceeds uint16_t
WrappedWrite ==
  /\ Did("WriteData")
  /\ last'.start_index + last'.bytes > 65535

\* C32: through the public interface SendData fails only when the transmission
\* payload_size is 0: in every state reached by WriteData, SendData and the reset methods
\* in which payload_size >= 1, SendData returns true.
C32_SendFailsOnlyWhenEmpty ==
  [][(Did("SendData") /\ transmission_buffer[kPayloadSizeIndex] >= 1) => last'.ok]_vars

\* SendData returns true on every staged buffer, with kPacketSent, kPayloadEncoded and
\* kCRCChecksumAddedToBuffer
StagedPayloadIsSent ==
  [][(Did("SendData") /\ Staged(transmission_buffer)) =>
       /\ last'.ok
       /\ transfer_status' = kPacketSent
       /\ cobs_status' = kPayloadEncoded
       /\ crc_status' = kCRCChecksumAddedToBuffer]_vars

\* a transmission buffer with payload_size above T or an overhead byte other than 0
\* only comes from a WriteData call whose arguments wrap
UnstagedOnlyByWrappedWrite ==
  [][(/\ transmission_buffer[kPayloadSizeIndex] <= kMaximumTransmittedPayloadSize
      /\ transmission_buffer[kOverheadByteIndex] = 0
      /\ \/ transmission_buffer'[kPayloadSizeIndex] > kMaximumTransmittedPayloadSize
         \/ transmission_buffer'[kOverheadByteIndex] # 0) => WrappedWrite]_vars

\* a SendData call has failed with kPayloadAlreadyEncoded on a payload_size of 1
SendFailedOnPayload ==
  /\ last.op = "SendData"
  /\ ~last.ok
  /\ transfer_status = kPayloadAlreadyEncoded
  /\ transmission_buffer[kPayloadSizeIndex] = 1
(***************************************************************************)
(* SpecMemory: Spec with WriteData calls whose memcpy destination lies     *)
(* behind the end of _transmission_buffer                                  *)
(***************************************************************************)
\* objects of more than T + 1 bytes
LargeObjects ==
  {[i \in 1..n |-> 1] : n \in {kMaximumTransmittedPayloadSize + 2, kMaximumTransmittedPayloadSize + 3}}
\* start_index arguments whose local_start_index does not wrap while required_size does
StartsShortOfWrap == {65532}

\* the indices of _transmission_buffer that WriteData stores to: the payload_size byte
\* and the provided_bytes bytes memcpy writes from &_transmission_buffer[local_start_index]
\* on.  required_size and local_start_index are uint16_t, the pointer arithmetic of memcpy
\* is not.
WriteDataStores(start_index, provided_bytes) ==
  LET required_size == U16(start_index + provided_bytes)
      local_start_index == U16(start_index + kPayloadStartIndex)
  IN  IF required_size > kMaximumTransmittedPayloadSize
      THEN {}
      ELSE {kPayloadSizeIndex} \cup (local_start_index..(local_start_index + provided_bytes - 1))

\* the indices of _transmission_buffer that ConstructPacket stores to: those of
\* EncodePayload (the overhead byte through the delimiter) and those of
\* AddCRCChecksumToBuffer (the postamble), each behind the checks of its method
ConstructPacketStores(buffer, crc, delimiter) ==
  Only({
    IF enc.ret = 0 THEN {}
    ELSE (kOverheadByteIndex..(kOverheadByteIndex + buffer[kPayloadSizeIndex] + 1)) \cup
         Only({IF sum.status # kCRCChecksumCalculated \/ add.ret = 0 THEN {}
               ELSE (enc.ret + kOverheadByteIndex)..(add.ret - 1) :
                 sum \in {CalculatePacketCRCChecksum(crc, enc.buf, kOverheadByteIndex, enc.ret)},
                 add \in {AddCRCChecksumToBuffer(crc, enc.buf, enc.ret + kOverheadByteIndex, 0)}}) :
      enc \in {EncodePayload(buffer, delimiter)}})

\* the indices of _reception_buffer that ParsePacket stores to when it takes the stream
\* from before to after: the payload_size byte, and one index from kOverheadByteIndex on
\* for each byte read behind a payload_size byte that passed the range check
ParsePacketStores(before, after, crc) ==
  LET at == {i \in 1..Len(before) : before[i] = kStartByte}
      first == CHOOSE i \in at : \A j \in at : i <= j
  IN  IF ~Available(before, crc) \/ at = {} \/ first = Len(before)
      THEN {}
      ELSE {kPayloadSizeIndex} \cup
           (kOverheadByteIndex..(kOverheadByteIndex + (Len(before) - first - 1 - Len(after)) - 1))

\* a WriteData call with a large object close to the end of the uint16_t range.  memcpy
\* writes behind the end of _transmission_buffer, which is undefined behaviour; the bytes
\* land more than 65000 bytes behind the TransportLayer object, so that either the call
\* returns with the members as WriteData leaves them, or the program stops, which is the
\* behaviour that takes no further step.
CallWriteDataBeyondBuffer ==
  /\ calls < MaxCalls
  /\ \E start_index \in StartsShortOfWrap, object \in LargeObjects :
       \E r \in {WriteData(transmission_buffer, object, start_index, Len(object))} :
           /\ transmission_buffer' = r.buf
           /\ transfer_status' = r.status
           /\ Called("WriteData", start_index, Len(object), object, r.ret, r.ret # 0)
  /\ UNCHANGED <<Fixed, allow_start_byte_errors, reception_buffer, cobs_status, crc_status,
                 port_rx, port_tx, sent_packet, sent_payload, corruptions>>

\* what a peer has put on the stream before the first call: nothing, or a start byte, a
\* payload_size byte of R + 3 and more bytes than the reception buffer holds
StreamsOfLongPacket ==
  {<<>>,
   <<kStartByte, kMaximumReceivedPayloadSize + 3>> \o
     [i \in 1..(kMaximumReceivedPayloadSize + 6) |-> 2]}

InitMemory ==
  /\ \E configuration \in Configurations :
       /\ kDelimiterByte = configuration[1]
       /\ crc_processor = configuration[2]
  /\ allow_start_byte_errors = FALSE
  /\ transmission_buffer =
       [i \in 0..(kTransmissionBufferSize(crc_processor) - 1) |-> IF i = 0 THEN kStartByte ELSE 0]
  /\ reception_buffer = [i \in 0..(kReceptionBufferSize(crc_processor) - 1) |-> 0]
  /\ transfer_status = kStandby
  /\ crc_status = kCRCStandby
  /\ port_rx \in StreamsOfLongPacket
  /\ port_tx = <<>>
  /\ calls = 0
  /\ last = NoCall
  /\ sent_packet = <<>>
  /\ sent_payload = <<>>
  /\ corruptions = 0
  /\ in_flight = <<>>
  /\ timing = IdleTiming
  /\ parser = IdleParser
  /\ IdleCOBS
  /\ crc_buffer = <<>>
  /\ crc_calls = <<>>

\* the public methods that store to a buffer, and the Stream
NextMemory ==
  \/ CallWriteData
  \/ CallWriteDataBeyondBuffer
  \/ CallSendData
  \/ CallReceiveData
  \/ CallResetTransmissionBuffer
  \/ CallResetReceptionBuffer
  \/ CallCopyTxBufferPayloadToRxBuffer
  \/ Deliver

SpecMemory == InitMemory /\ [][NextMemory]_vars

\* every store of this step's call lies inside the class buffers, and inside the bounds
\* ParsePacket and ConstructPacket keep
StoresInsideBuffers ==
  /\ Did("WriteData") =>
       WriteDataStores(last'.start_index, last'.bytes) \subseteq DOMAIN transmission_buffer
  /\ Did("SendData") =>
       /\ ConstructPacketStores(transmission_buffer, crc_processor, kDelimiterByte) \subseteq
            kOverheadByteIndex..(kMaximumTransmittedPayloadSize + 3 + kPostambleSize(crc_processor))
       /\ kMaximumTransmittedPayloadSize + 3 + kPostambleSize(crc_processor) \in
            DOMAIN transmission_buffer
  /\ Did("ReceiveData") =>
       /\ ParsePacketStores(port_rx, port_rx', crc_processor) \subseteq
            kPayloadSizeIndex..(kMaximumReceivedPayloadSize + 3 + kPostambleSize(crc_processor))
       /\ kMaximumReceivedPayloadSize + 3 + kPostambleSize(crc_processor) \in
            DOMAIN reception_buffer

\* C33: no operation reachable through the public interface writes outside the class
\* buffers: ParsePacket stores at most size + 2 + W bytes from index 2 on with size <= R,
\* ConstructPacket writes the delimiter and the checksum at indices no greater than
\* T + 3 + W, and the buffers hold R + 4 + W and T + 4 + W bytes.
C33_StoresInsideBuffers == [][StoresInsideBuffers]_vars

\* the stores of every call other than a WriteData whose arguments wrap lie inside the
\* class buffers
StoresInsideBuffersUnlessWrapped == [][WrappedWrite \/ StoresInsideBuffers]_vars

\* ParsePacket has stored a whole packet of the largest size, and ConstructPacket one
LargestPacketStored ==
  /\ last.op = "ReceiveData"
  /\ last.ok
  /\ reception_buffer[kPayloadSizeIndex] = kMaximumReceivedPayloadSize
  /\ sent_packet # <<>>
  /\ Len(sent_packet) = BufLen(transmission_buffer)
(***************************************************************************)
(* Claims about the transmission buffer between calls                      *)
(***************************************************************************)
\* the form the constructor gives the transmission buffer and SendData gives it back:
\* the start byte at index 0, an overhead byte 0, a payload_size of at most T
BetweenCalls(buffer) ==
  /\ buffer[0] = kStartByte
  /\ buffer[kOverheadByteIndex] = 0
  /\ buffer[kPayloadSizeIndex] <= kMaximumTransmittedPayloadSize

\* C34: whenever a public method has returned, the transmission buffer has the start byte
\* at index 0, an overhead byte (index 2) of 0 and a payload_size no larger than T: its
\* COBS-encoded state is never seen between calls.
C34_TransmissionBufferBetweenCalls == BetweenCalls(transmission_buffer)

\* no call other than a WriteData whose arguments wrap takes the transmission buffer out
\* of that form
KeptBetweenCallsUnlessWrapped ==
  [][(BetweenCalls(transmission_buffer) /\ ~WrappedWrite) =>
       BetweenCalls(transmission_buffer')]_vars

\* SendData has sent a packet whose overhead byte was not 0 and left the buffer reset
EncodedStateNotLeftBehind ==
  /\ last.op = "SendData"
  /\ last.ok
  /\ sent_packet[kOverheadByteIndex + 1] # 0
  /\ BetweenCalls(transmission_buffer)
  /\ transmission_buffer[kPayloadSizeIndex] = 0
(***************************************************************************)
(* SpecStream: a TransportLayer whose Stream holds the packets a peer with *)
(* the same configuration has sent back to back                            *)
(***************************************************************************)
\* largest number of packets waiting on the stream
MaxPackets == 3
\* the payloads the peer sends
StreamPayloads == UNION {[1..n -> ObjectBytes] : n \in 1..kMaximumReceivedPayloadSize}

\* the bytes SendData writes for a payload staged with one WriteData at start_index 0
PacketOf(crc, delimiter, payload) ==
  SendData(WriteData(EmptyTransmissionBuffer(crc), payload, 0, Len(payload)).buf,
           crc, delimiter, kCOBSStandby, kCRCStandby).written

\* the stream that holds the packets of the payloads sent, in the order sent
RECURSIVE StreamOf(_, _)
StreamOf(configuration, sent) ==
  IF sent = <<>> THEN <<>>
  ELSE PacketOf(configuration[2], configuration[1], Head(sent)) \o
       StreamOf(configuration, Tail(sent))

InitStream ==
  /\ \E configuration \in Configurations :
       /\ kDelimiterByte = configuration[1]
       /\ crc_processor = configuration[2]
       /\ \E n \in 2..MaxPackets : \E sent \in [1..n -> StreamPayloads] :
            port_rx = StreamOf(configuration, sent)
  /\ allow_start_byte_errors = FALSE
  /\ transmission_buffer =
       [i \in 0..(kTransmissionBufferSize(crc_processor) - 1) |-> IF i = 0 THEN kStartByte ELSE 0]
  /\ reception_buffer = [i \in 0..(kReceptionBufferSize(crc_processor) - 1) |-> 0]
  /\ transfer_status = kStandby
  /\ crc_status = kCRCStandby
  /\ port_tx = <<>>
  /\ calls = 0
  /\ last = NoCall
  /\ sent_packet = <<>>
  /\ sent_payload = <<>>
  /\ corruptions = 0
  /\ in_flight = <<>>
  /\ timing = IdleTiming
  /\ parser = IdleParser
  /\ IdleCOBS
  /\ crc_buffer = <<>>
  /\ crc_calls = <<>>

\* the receiving side of the public interface
NextStream ==
  \/ CallReceiveData
  \/ CallReadData
  \/ CallAvailable

SpecStream == InitStream /\ [][NextStream]_vars

(***************************************************************************)
(* Claims about packets received back to back                              *)
(***************************************************************************)
\* the packets of this configuration that the stream starts with: those of the payloads
\* whose size is the second byte of the stream
FirstPacketOf(stream) ==
  {packet \in {[payload |-> payload,
                bytes |-> PacketOf(crc_processor, kDelimiterByte, payload)] :
                 payload \in {sized \in StreamPayloads :
                                Len(stream) >= 2 /\ Len(sized) = stream[2]}} :
     /\ Len(packet.bytes) <= Len(stream)
     /\ SubSeq(stream, 1, Len(packet.bytes)) = packet.bytes}

\* the payloads of the packets a stream of back-to-back packets holds, first one first;
\* <<>> stands for bytes that are no packet
RECURSIVE PayloadsOn(_)
PayloadsOn(stream) ==
  IF stream = <<>> THEN <<>>
  ELSE Only({IF firsts = {} THEN <<<<>>>>
             ELSE Only({<<first.payload>> \o
                          PayloadsOn(SubSeq(stream, Len(first.bytes) + 1, Len(stream))) :
                          first \in {CHOOSE packet \in firsts : TRUE}}) :
               firsts \in {FirstPacketOf(stream)}})

\* the stream holds well-formed packets back to back and nothing else
BackToBack(stream) == \E sent \in {PayloadsOn(stream)} : \A k \in DOMAIN sent : sent[k] # <<>>

\* the last n elements of a stream
Behind(stream, n) == SubSeq(stream, Len(stream) - n + 1, Len(stream))

\* C35: when the stream holds several well-formed packets back to back, each successful
\* ReceiveData call consumes exactly one packet (size + 4 + W bytes from its start byte)
\* and nothing of the next one, and successive calls return the payloads in the order in
\* which they were sent.
C35_OnePacketPerCall ==
  [][(Did("ReceiveData") /\ last'.ok) =>
       \E sent \in {PayloadsOn(port_rx)} :
          (\A k \in DOMAIN sent : sent[k] # <<>>) =>
             /\ PayloadOf(reception_buffer') = Head(sent)
             /\ Len(port_rx) - Len(port_rx') =
                  Len(Head(sent)) + 4 + kPostambleSize(crc_processor)
             /\ port_rx' = Behind(port_rx, Len(port_rx'))
             /\ PayloadsOn(port_rx') = Tail(sent)]_vars

\* C35 witness: the second of two successful ReceiveData calls made one after the other
\* has returned a payload of another size than the one still waiting on the stream, and
\* that one is whole
C35_Witness ==
  /\ calls = 2
  /\ last.op = "ReceiveData"
  /\ last.ok
  /\ transfer_status = kPacketReceived
  /\ port_rx # <<>>
  /\ BackToBack(port_rx)
  /\ Len(PayloadsOn(port_rx)) = 1
  /\ Len(port_rx) = Len(PayloadsOn(port_rx)[1]) + 4 + kPostambleSize(crc_processor)
  /\ Len(PayloadsOn(port_rx)[1]) # reception_buffer[kPayloadSizeIndex]
(***************************************************************************)
(* SpecPort: a TransportLayer that sends over a StreamMock whose           *)
(* transmission buffer is small                                            *)
(***************************************************************************)
\* StreamMock template argument kBufferSize: the number of elements of tx_buffer
kBufferSize == 8

\* StreamMock::write(buffer, bytes_to_write): tx_buffer after the call and the number of
\* bytes written, which is smaller than bytes_to_write when tx_buffer gets full
write(tx_buffer, buffer) ==
  Only({[tx_buffer |-> tx_buffer \o SubSeq(buffer, 1, i), ret |-> i] :
          i \in {Min(Len(buffer), kBufferSize - Len(tx_buffer))}})

\* a variant of SendData that returns false, with the status and the buffer as
\* ConstructPacket left them, when the stream has taken fewer bytes than the packet has
SendDataCheckingWrite(tx_buffer, buffer, crc, delimiter, old_cobs_status, old_crc_status) ==
  Only({
    IF packet.ret = 0
    THEN [tx_buffer |-> tx_buffer, combined_size |-> 0, written |-> 0, buf |-> packet.buf,
          ret |-> FALSE, status |-> packet.status, cobs |-> packet.cobs, crc |-> packet.crc]
    ELSE Only({
      IF port.ret < packet.ret
      THEN [tx_buffer |-> port.tx_buffer, combined_size |-> packet.ret, written |-> port.ret,
            buf |-> packet.buf, ret |-> FALSE, status |-> packet.status,
            cobs |-> packet.cobs, crc |-> packet.crc]
      ELSE [tx_buffer |-> port.tx_buffer, combined_size |-> packet.ret, written |-> port.ret,
            buf |-> ResetBuffer(packet.buf), ret |-> TRUE, status |-> kPacketSent,
            cobs |-> packet.cobs, crc |-> packet.crc] :
        port \in {write(tx_buffer, Slice(packet.buf, 0, packet.ret))}}) :
      packet \in {ConstructPacket(buffer, crc, delimiter, old_cobs_status, old_crc_status)}})

\* TransportLayer::SendData with _port.write spelled out: tx_buffer of the stream after
\* the call, the size of the packet, the number of bytes the stream took, the
\* transmission buffer after the call, the value returned, transfer_status and the two
\* processors' statuses.  The value write returns is not used.
SendDataToPort(tx_buffer, buffer, crc, delimiter, old_cobs_status, old_crc_status) ==
  Only({
    IF packet.ret = 0
    THEN [tx_buffer |-> tx_buffer, combined_size |-> 0, written |-> 0, buf |-> packet.buf,
          ret |-> FALSE, status |-> packet.status, cobs |-> packet.cobs, crc |-> packet.crc]
    ELSE Only({
      [tx_buffer |-> port.tx_buffer, combined_size |-> packet.ret, written |-> port.ret,
       buf |-> ResetBuffer(packet.buf), ret |-> TRUE, status |-> kPacketSent,
       cobs |-> packet.cobs, crc |-> packet.crc] :
        port \in {write(tx_buffer, Slice(packet.buf, 0, packet.ret))}}) :
      packet \in {ConstructPacket(buffer, crc, delimiter, old_cobs_status, old_crc_status)}})

\* a SendData call; last.bytes is the size of the packet and last.ret the number of bytes
\* the stream took
CallSendDataToPort ==
  /\ calls < MaxCalls
  /\ \E r \in {SendDataToPort(port_tx, transmission_buffer, crc_processor, kDelimiterByte,
                             cobs_status, crc_status)} :
         /\ transmission_buffer' = r.buf
         /\ transfer_status' = r.status
         /\ cobs_status' = r.cobs
         /\ crc_status' = r.crc
         /\ port_tx' = r.tx_buffer
         /\ sent_packet' = IF r.ret
                           THEN SubSeq(r.tx_buffer, Len(port_tx) + 1, Len(r.tx_buffer))
                           ELSE sent_packet
         /\ sent_payload' = IF r.ret THEN PayloadOf(transmission_buffer) ELSE sent_payload
         /\ Called("SendData", 0, r.combined_size, <<>>, r.written, r.ret)
  /\ UNCHANGED <<Fixed, allow_start_byte_errors, reception_buffer, port_rx, corruptions>>

NextPort ==
  \/ CallWriteData
  \/ CallSendDataToPort
  \/ CallResetTransmissionBuffer

SpecPort == Init /\ [][NextPort]_vars

\* C36: SendData does not look at the number of bytes the stream's write() took: it
\* returns true with kPacketSent and resets the transmission payload_size and overhead
\* byte also when the stream took fewer bytes than the packet has.
C36_WriteResultIgnored ==
  [][(Did("SendData") /\ last'.bytes # 0) =>
       /\ last'.ok
       /\ transfer_status' = kPacketSent
       /\ transmission_buffer'[kPayloadSizeIndex] = 0
       /\ transmission_buffer'[kOverheadByteIndex] = 0
       /\ last'.ret = Min(last'.bytes, kBufferSize - Len(port_tx))
       /\ Len(port_tx') = Len(port_tx) + last'.ret]_vars

\* C36 witness: SendData has returned true with kPacketSent and a reset buffer after the
\* stream took some, but not all, bytes of the packet
C36_Witness ==
  /\ last.op = "SendData"
  /\ last.ok
  /\ last.ret > 0
  /\ last.ret < last.bytes
  /\ Len(port_tx) = kBufferSize
  /\ transfer_status = kPacketSent
  /\ transmission_buffer[kPayloadSizeIndex] = 0
  /\ transmission_buffer[kOverheadByteIndex] = 0

\* the body ParsePacket has stored (overhead byte up to the last byte before the
\* postamble) holds the delimiter value at its last index and nowhere else
SingleDelimiterLast(buffer, delimiter) ==
  \A i \in kOverheadByteIndex..(buffer[kPayloadSizeIndex] + kOverheadByteIndex + 1) :
     (buffer[i] = delimiter) <=> (i = buffer[kPayloadSizeIndex] + kOverheadByteIndex + 1)

\* C37: with delimiter value 0, a ReceiveData call never ends with transfer_status
\* kDecoderDelimiterFoundTooEarly or kPacketAlreadyDecoded, because the body ParsePacket
\* hands to ValidatePacket has its only delimiter-valued byte at the last body index;
\* the only status of the COBS codec a ReceiveData call ends with is
\* kDecoderUnableToFindDelimiter.
C37_DecoderFailuresWithZeroDelimiter ==
  [][(Did("ReceiveData") /\ kDelimiterByte = 0) =>
       /\ transfer_status' \notin {kDecoderDelimiterFoundTooEarly, kPacketAlreadyDecoded}
       /\ transfer_status' \in kCOBSProcessorCodes =>
            transfer_status' = kDecoderUnableToFindDelimiter
       /\ ValidatesPacket => SingleDelimiterLast(reception_buffer, kDelimiterByte)]_vars

\* C37 witness: with delimiter value 0, ReceiveData has returned false for a packet with
\* a good checksum whose jump chain misses the delimiter
C37_Witness ==
  /\ kDelimiterByte = 0
  /\ last.op = "ReceiveData"
  /\ ~last.ok
  /\ parser.pc = "idle"
  /\ transfer_status = kDecoderUnableToFindDelimiter

\* the reception buffer holds, from payload_size through the last checksum byte, the
\* bytes the call took from the stream behind the start byte, unchanged
HoldsReceivedBytes(stream, taken, buffer, crc) ==
  \E n \in {buffer[kPayloadSizeIndex]} :
     /\ n >= 1
     /\ taken >= n + 4 + kPostambleSize(crc)
     /\ stream[taken - (n + 3 + kPostambleSize(crc))] = kStartByte
     /\ \A j \in 0..(n + 2 + kPostambleSize(crc)) :
          buffer[kPayloadSizeIndex + j] = stream[taken - (n + 2 + kPostambleSize(crc)) + j]

\* this step is a ReceiveData call that fails the CRC check
FailsCRCCheck == Did("ReceiveData") /\ transfer_status' = kCRCCheckFailed

\* this step is a ReadData call whose bytes lie inside the payload_size of the reception
\* buffer
ReadsWithinPayloadSize ==
  /\ Did("ReadData")
  /\ last'.start_index + last'.bytes <= reception_buffer[kPayloadSizeIndex]

\* C38 (as stated): after ReceiveData fails with kCRCCheckFailed the overhead byte of
\* the reception buffer is non-zero
C38_OverheadNonZeroAfterFailedCheck ==
  [][FailsCRCCheck => reception_buffer'[kOverheadByteIndex] # 0]_vars

\* C38: after ReceiveData fails with kCRCCheckFailed, the reception buffer keeps the
\* received size byte in payload_size and the received body and checksum bytes behind it
\* (the overhead byte is non-zero when the delimiter is 0; with another delimiter it can
\* be 0); ReadData does not change the buffer, so until the next reset ReadData calls
\* within that size succeed and return the bytes as received, still COBS-encoded.
C38_FailedCheckKeepsReceivedBytes ==
  [][/\ FailsCRCCheck =>
          /\ ~last'.ok
          /\ HoldsReceivedBytes(port_rx, Len(port_rx) - Len(port_rx'), reception_buffer',
                                crc_processor)
          /\ kDelimiterByte = 0 => reception_buffer'[kOverheadByteIndex] # 0
     /\ Did("ReadData") => reception_buffer' = reception_buffer
     /\ ReadsWithinPayloadSize =>
          /\ transfer_status' = kObjectReadFromBuffer
          /\ last'.ret = last'.start_index + last'.bytes
          /\ last'.object = Slice(reception_buffer, last'.start_index + kPayloadStartIndex,
                                  last'.bytes)]_vars

\* C38 witness: with delimiter 1 a packet whose overhead byte arrived as 0 has failed
\* the CRC check (the encoder has run, the checksum was calculated, the decoder has
\* not run), and the ReadData call behind it has returned the received bytes
C38_Witness ==
  /\ kDelimiterByte = 1
  /\ last.op = "ReadData"
  /\ last.bytes >= 1
  /\ transfer_status = kObjectReadFromBuffer
  /\ crc_status = kCRCChecksumCalculated
  /\ cobs_status = kPayloadEncoded
  /\ reception_buffer[kPayloadSizeIndex] >= 1
  /\ reception_buffer[kOverheadByteIndex] = 0
  /\ last.object = Slice(reception_buffer, last.start_index + kPayloadStartIndex, last.bytes)

(***************************************************************************)
(* SpecDecode: one DecodePayload call, taken one loop iteration at a time, *)
(* on buffers drawn from a bounded set                                     *)
(***************************************************************************)
InitDecode ==
  /\ delimiter_byte_value \in CobsDelimiters
  /\ \E size \in CobsSizes, overhead \in CobsBytes,
        body \in [kPayloadStartIndex..(CobsBufferSize - 1) -> CobsBytes] :
       payload_buffer = [i \in 0..(CobsBufferSize - 1) |->
                           IF i = 0 THEN 129
                           ELSE IF i = kPayloadSizeIndex THEN size
                           ELSE IF i = kOverheadByteIndex THEN overhead
                           ELSE body[i]]
  /\ cobs_status = kCOBSStandby
  /\ cobs_calls = <<>>
  /\ decoder = IdleDecoder
  /\ IdleCRC
  /\ IdleTransportLayer

\* DecodePayload returns
DecoderReturns(ret, status) ==
  /\ decoder' = [decoder EXCEPT !.pc = "done", !.ret = ret]
  /\ cobs_status' = status

\* DecodePayload is called: the checks of the packet size, the buffer size and the
\* overhead byte, then the jump the overhead byte gives
DecodeCall ==
  /\ decoder.pc = "idle"
  /\ LET kPayloadSize == payload_buffer[kPayloadSizeIndex]
         kPacketSize == kPayloadSize + 2
         kMinimumRequiredBufferSize == kPayloadSize + kOverheadByteIndex + 2
         Fail(code) == /\ decoder' = [decoder EXCEPT !.pc = "done", !.ret = 0,
                                                     !.before = payload_buffer]
                       /\ cobs_status' = code
                       /\ UNCHANGED payload_buffer
     IN  IF kPacketSize < kMinPacketSize THEN Fail(kDecoderTooSmallPacketSize)
         ELSE IF kPacketSize > kMaxPacketSize THEN Fail(kDecoderTooLargePacketSize)
         ELSE IF BufLen(payload_buffer) < kMinimumRequiredBufferSize
              THEN Fail(kDecoderPacketLargerThanBuffer)
         ELSE IF payload_buffer[kOverheadByteIndex] = 0 THEN Fail(kPacketAlreadyDecoded)
         ELSE /\ decoder' = [decoder EXCEPT
                               !.pc = "loop",
                               !.next_index = payload_buffer[kOverheadByteIndex],
                               !.read_index = U16(kOverheadByteIndex
                                                    + payload_buffer[kOverheadByteIndex]),
                               !.before = payload_buffer]
              /\ payload_buffer' = [payload_buffer EXCEPT ![kOverheadByteIndex] = 0]
              /\ UNCHANGED cobs_status
  /\ UNCHANGED <<delimiter_byte_value, cobs_calls, crcVars, tlVars>>

\* the loop condition holds: one pass through the loop body
DecodeIterate ==
  /\ decoder.pc = "loop"
  /\ decoder.read_index < payload_buffer[kPayloadSizeIndex] + kOverheadByteIndex + 2
  /\ \E r \in {DecodeIteration(payload_buffer, decoder.read_index, delimiter_byte_value,
                               payload_buffer[kPayloadSizeIndex] + 3,
                               payload_buffer[kPayloadSizeIndex])} :
       IF r.returned
       THEN /\ DecoderReturns(r.ret, r.status)
            /\ UNCHANGED payload_buffer
       ELSE /\ decoder' = [decoder EXCEPT !.read_index = r.read_index,
                                          !.next_index = r.next_index]
            /\ payload_buffer' = r.buf
            /\ UNCHANGED cobs_status
  /\ UNCHANGED <<delimiter_byte_value, cobs_calls, crcVars, tlVars>>

\* the loop condition fails: no delimiter was reached
DecodeLeaveLoop ==
  /\ decoder.pc = "loop"
  /\ ~(decoder.read_index < payload_buffer[kPayloadSizeIndex] + kOverheadByteIndex + 2)
  /\ DecoderReturns(0, kDecoderUnableToFindDelimiter)
  /\ UNCHANGED <<payload_buffer, delimiter_byte_value, cobs_calls, crcVars, tlVars>>

NextDecode == DecodeCall \/ DecodeIterate \/ DecodeLeaveLoop

SpecDecode == InitDecode /\ [][NextDecode]_vars

\* the processor keeps executing the call it is in
SpecDecodeLive == SpecDecode /\ WF_vars(NextDecode)

\* the call has returned what DecodePayload, taken as one step, gives for the buffer it
\* was called with
ReturnsAsDecodePayload ==
  decoder.pc = "done" =>
    \E r \in {DecodePayload(decoder.before, delimiter_byte_value)} :
       /\ payload_buffer = r.buf
       /\ decoder.ret = r.ret
       /\ cobs_status = r.status

\* this step is a pass through the loop body
PassesLoopBody == decoder.pc = "loop" /\ DecodeIterate

\* each pass through the loop body returns or moves read_index forward, except for a
\* jump of 0, which leaves read_index on a byte it has set to the delimiter value
EachPassAdvances ==
  [][PassesLoopBody =>
       \/ decoder'.pc = "done"
       \/ decoder'.read_index >= decoder.read_index + 1
       \/ /\ payload_buffer[decoder.read_index] = 0
          /\ delimiter_byte_value # 0
          /\ decoder'.read_index = decoder.read_index
          /\ payload_buffer'[decoder'.read_index] = delimiter_byte_value]_vars

\* the pass behind a jump of 0 returns
ZeroJumpReturnsNext ==
  [][(PassesLoopBody /\ decoder.next_index = 0) => decoder'.pc = "done"]_vars

\* read_index stays below the size of the buffer plus the largest byte value
ReadIndexBounded ==
  decoder.pc = "loop" => decoder.read_index < CobsBufferSize + 256

\* every call returns
EveryCallReturns == <>(decoder.pc = "done")

\* C39: DecodePayload terminates for every buffer content, payload_size and delimiter
\* value, jump bytes equal to 0 included: each pass through the loop body returns or
\* moves read_index forward by at least 1, except that a jump of 0 overwrites the byte
\* at read_index with the delimiter value and the next pass returns.
C39_DecodePayloadTerminates ==
  /\ EachPassAdvances
  /\ ZeroJumpReturnsNext
  /\ EveryCallReturns

\* C39 witness: a call with a delimiter other than 0 has returned behind a jump of 0
C39_Witness ==
  /\ decoder.pc = "done"
  /\ delimiter_byte_value # 0
  /\ decoder.next_index = 0
  /\ decoder.before[kOverheadByteIndex] # 0
  /\ cobs_status \in {kPayloadDecoded, kDecoderDelimiterFoundTooEarly}

(***************************************************************************)
(* SpecRecover: ReceiveData called on a stream that holds bytes a call     *)
(* rejects, with well-formed packets arriving behind them                  *)
(***************************************************************************)
\* a packet as SendData writes it, with bit 0 of its last checksum byte flipped
CorruptedPacket(crc, delimiter, payload) ==
  Only({[packet EXCEPT ![Len(packet)] = Xor(packet[Len(packet)], 1)] :
          packet \in {PacketOf(crc, delimiter, payload)}})

\* a packet as SendData writes it, without its last checksum byte
PacketWithoutLastByte(crc, delimiter, payload) ==
  Only({SubSeq(packet, 1, Len(packet) - 1) : packet \in {PacketOf(crc, delimiter, payload)}})

\* bytes on the stream that make a ReceiveData call fail: nothing, noise, noise that
\* ends with a start byte, a payload_size of 0 and one above R, a delimiter in place of
\* the overhead byte, a body without a delimiter, a packet that breaks off in its body
\* and one that breaks off in its checksum, a packet with a flipped checksum bit and a
\* packet with a good checksum whose jump chain misses the delimiter
RejectedBytes(crc, delimiter) ==
  { <<>>,
    <<0, 0>>,
    <<0, 0, 0, 0>>,
    <<0, 0, 0, kStartByte>>,
    PacketWithoutLastByte(crc, delimiter, <<0>>),
    <<kStartByte, 0, 2, 2>>,
    <<kStartByte, kMaximumReceivedPayloadSize + 1, 2, 2>>,
    <<kStartByte, 1, delimiter, 2, 2>>,
    <<kStartByte, 1, 2, 2, 2, 2>>,
    <<kStartByte, 2, 2, 2>>,
    CorruptedPacket(crc, delimiter, <<0>>),
    ForgedPacket(crc, delimiter, 1, 3, <<2>>) }

InitRecover ==
  /\ \E configuration \in Configurations :
       /\ kDelimiterByte = configuration[1]
       /\ crc_processor = configuration[2]
       /\ port_rx \in RejectedBytes(configuration[2], configuration[1])
       /\ \E n \in 1..2 : \E sent \in [1..n -> StreamPayloads] :
            port_tx = StreamOf(configuration, sent)
  /\ allow_start_byte_errors \in BOOLEAN
  /\ transmission_buffer =
       [i \in 0..(kTransmissionBufferSize(crc_processor) - 1) |-> IF i = 0 THEN kStartByte ELSE 0]
  /\ reception_buffer = [i \in 0..(kReceptionBufferSize(crc_processor) - 1) |-> 0]
  /\ transfer_status = kStandby
  /\ crc_status = kCRCStandby
  /\ calls = 0
  /\ last = NoCall
  /\ sent_packet = <<>>
  /\ sent_payload = <<>>
  /\ corruptions = 0
  /\ in_flight = <<>>
  /\ timing = IdleTiming
  /\ parser = IdleParser
  /\ IdleCOBS
  /\ crc_buffer = <<>>
  /\ crc_calls = <<>>

\* the receiver polls and receives while the packets arrive
NextRecover ==
  \/ CallReceiveData
  \/ CallAvailable
  \/ Deliver

SpecRecover == InitRecover /\ [][NextRecover]_vars

(***************************************************************************)
(* Claims about ReceiveData after a failed call                            *)
(***************************************************************************)
\* the statuses a failed ReceiveData call leaves in transfer_status
ReceiveFailures ==
  {kNoBytesToParseFromBuffer, kPacketStartByteNotFound, kPayloadSizeByteNotFound,
   kInvalidPayloadSize, kPacketTimeoutError, kDelimiterNotFoundError,
   kDelimiterFoundTooEarlyError, kPostambleTimeoutError, kCRCCheckFailed}
    \cup kCOBSProcessorCodes \cup kCRCProcessorCodes

\* the stream from its first start byte on
FromStartByte(stream) ==
  IF \A i \in 1..Len(stream) : stream[i] # kStartByte THEN <<>>
  ELSE SubSeq(stream, CHOOSE i \in 1..Len(stream) :
                        /\ stream[i] = kStartByte
                        /\ \A j \in 1..(i - 1) : stream[j] # kStartByte,
              Len(stream))

\* this step is a ReceiveData call that comes behind a failed one, finds Available()
\* true and, behind bytes without a start byte, a well-formed packet; the step returns
\* true with the payload of that packet
ReceivesNextPacket ==
  (Did("ReceiveData") /\ transfer_status \in ReceiveFailures
     /\ Available(port_rx, crc_processor)) =>
    \A packet \in FirstPacketOf(FromStartByte(port_rx)) :
       /\ last'.ok
       /\ transfer_status' = kPacketReceived
       /\ PayloadOf(reception_buffer') = packet.payload

\* C40: no error state persists across ReceiveData calls: after a call has failed with
\* any status, a later call with Available() true returns true with the payload of the
\* next well-formed packet on the stream, provided no unread byte before that packet
\* equals the start byte.
C40_NextPacketReceived == [][ReceivesNextPacket]_vars

\* the same for the configurations whose packets the receiver accepts: delimiter 0 and
\* final XOR value 0
NextPacketReceivedWithAcceptedConfiguration ==
  [][(kDelimiterByte = 0 /\ crc_processor.final_xor_value = 0) => ReceivesNextPacket]_vars

\* no call behind a failed one has received a packet: an action formula that a recovery
\* refutes
NeverRecovers ==
  [][~(/\ Did("ReceiveData")
       /\ transfer_status \in ReceiveFailures \ {kNoBytesToParseFromBuffer}
       /\ FirstPacketOf(FromStartByte(port_rx)) # {}
       /\ last'.ok)]_vars

====
